---- MODULE Spec2Model ----
(***************************************************************************)
(* Risk Management System: the in-memory datastore, the request handlers   *)
(* that change it (assessments, profiles, scenarios, comprehensive         *)
(* analysis) and the calculation services (concentration, suitability,     *)
(* stress test, recommendations).                                          *)
(*                                                                         *)
(* Conventions.  Identifiers are the numeric part of the generated id      *)
(* ('PRF-007' is 7).  Time stamps are ticks of the variable now.  Percent  *)
(* values that the code rounds with toFixed(2) are carried in hundredths   *)
(* (names ending in 100).  A JavaScript object is a record; a field that   *)
(* the object does not have is a field outside the record's DOMAIN.  The   *)
(* bookkeeping stamps createdAt and updatedAt, which no handler reads, are *)
(* left out of the records; now advances with every stored assessment.     *)
(***************************************************************************)
EXTENDS Integers, Sequences, FiniteSets, TLC

VARIABLES investors, riskProfiles, riskAssessments, recommendations,
          scenarios, counters, now, response, riskScores, sseSessions

datastore == <<investors, riskProfiles, riskAssessments, recommendations, scenarios>>
vars == <<investors, riskProfiles, riskAssessments, recommendations,
          scenarios, counters, now, response, riskScores, sseSessions>>

----------------------------------------------------------------------------
(* Bounds of the model *)

NumSeedInvestors == 2
NumSeedScenarios == 1
MaxProfiles == 4
MaxScenarios == 3
MaxRecommendations == 1
MaxWeights == 3
MaxVaRProduct == 13

Null == -1

----------------------------------------------------------------------------
(* Generic helpers *)

Has(r, k) == k \in DOMAIN r

Truthy(r, k) == IF k \in DOMAIN r THEN r[k] = TRUE ELSE FALSE

Merge(r, u) == [k \in DOMAIN r \cup DOMAIN u |-> IF k \in DOMAIN u THEN u[k] ELSE r[k]]

RECURSIVE SumSeq(_)
SumSeq(s) == IF s = <<>> THEN 0 ELSE Head(s) + SumSeq(Tail(s))

Abs(x) == IF x < 0 THEN -x ELSE x

Min(a, b) == IF a < b THEN a ELSE b

Max(a, b) == IF a > b THEN a ELSE b

\* Math.round of the rational n/d (d > 0): the nearest integer, halves upwards
RoundDiv(n, d) == (2 * n + d) \div (2 * d)

----------------------------------------------------------------------------
(* datastore.js *)

getWhere(collection, filter(_)) == SelectSeq(collection, filter)

Indices(collection, idField, id) == {k \in 1..Len(collection) : collection[k][idField] = id}

FirstIndex(collection, idField, id) ==
  LET ks == Indices(collection, idField, id)
  IN IF ks = {} THEN 0 ELSE CHOOSE k \in ks : \A j \in ks : k <= j

Exists(collection, idField, id) == Indices(collection, idField, id) # {}

getById(collection, idField, id) == collection[FirstIndex(collection, idField, id)]

\* the profile that getWhere(isActive)[0] designates: 0 when there is none
ActiveProfileIndex(profiles, investorId) ==
  LET ks == {k \in 1..Len(profiles) : profiles[k].investorId = investorId /\ Truthy(profiles[k], "isActive")}
  IN IF ks = {} THEN 0 ELSE CHOOSE k \in ks : \A j \in ks : k <= j

----------------------------------------------------------------------------
(* Questionnaire (data/questionnaire.json): 15 questions, five options     *)
(* scored 1..5, maxScore 75                                                *)

NumQuestions == 15
NumOptions == 5

questionnaire ==
  [maxScore |-> 75,
   questions |-> [q \in 1..NumQuestions |->
      [questionId |-> q,
       options |-> [o \in 1..NumOptions |-> [optionId |-> o, score |-> o]]]]]

QuestionKnown(resp) == \E q \in 1..Len(questionnaire.questions) :
                          questionnaire.questions[q].questionId = resp.questionId

OptionKnown(resp) ==
  /\ QuestionKnown(resp)
  /\ LET question == questionnaire.questions[CHOOSE q \in 1..Len(questionnaire.questions) :
                        questionnaire.questions[q].questionId = resp.questionId]
     IN \E o \in 1..Len(question.options) : question.options[o].optionId = resp.selectedOption

OptionScore(resp) ==
  LET question == questionnaire.questions[CHOOSE q \in 1..Len(questionnaire.questions) :
                        questionnaire.questions[q].questionId = resp.questionId]
      o == CHOOSE k \in 1..Len(question.options) : question.options[k].optionId = resp.selectedOption
  IN question.options[o].score

(* scoringEngine.js *)

scoreAssessmentSkipUnknown(responses) ==
  LET known == SelectSeq(responses, OptionKnown)
      scores == [k \in 1..Len(known) |-> OptionScore(known[k])]
      rawScore == SumSeq(scores)
  IN [ok |-> TRUE, responses |-> known, rawScore |-> rawScore,
      maxPossibleScore |-> questionnaire.maxScore,
      percentileScore |-> RoundDiv(rawScore * 100, questionnaire.maxScore)]

scoreAssessment(responses) ==
  IF \E k \in 1..Len(responses) : ~OptionKnown(responses[k])
  THEN [ok |-> FALSE]
  ELSE LET scores == [k \in 1..Len(responses) |-> OptionScore(responses[k])]
           rawScore == SumSeq(scores)
       IN [ok |-> TRUE, responses |-> responses, rawScore |-> rawScore,
           maxPossibleScore |-> questionnaire.maxScore,
           percentileScore |-> RoundDiv(rawScore * 100, questionnaire.maxScore)]

calculateRiskCategory(score) ==
  IF score <= 30 THEN 1
  ELSE IF score <= 45 THEN 2
  ELSE IF score <= 55 THEN 3
  ELSE IF score <= 65 THEN 4
  ELSE 5

getRecommendedAllocation(categoryCode) ==
  CASE categoryCode = 1 -> [equities |-> 20, fixedIncome |-> 60, alternatives |-> 5, cash |-> 15]
    [] categoryCode = 2 -> [equities |-> 40, fixedIncome |-> 45, alternatives |-> 5, cash |-> 10]
    [] categoryCode = 3 -> [equities |-> 60, fixedIncome |-> 30, alternatives |-> 5, cash |-> 5]
    [] categoryCode = 4 -> [equities |-> 75, fixedIncome |-> 15, alternatives |-> 7, cash |-> 3]
    [] categoryCode = 5 -> [equities |-> 90, fixedIncome |-> 5, alternatives |-> 3, cash |-> 2]

getRiskLimits(categoryCode) ==
  CASE categoryCode = 1 -> [maxDrawdownTolerance |-> 10, maxVolatilityTolerance |-> 8, maxConcentrationLimit |-> 15]
    [] categoryCode = 2 -> [maxDrawdownTolerance |-> 15, maxVolatilityTolerance |-> 12, maxConcentrationLimit |-> 20]
    [] categoryCode = 3 -> [maxDrawdownTolerance |-> 25, maxVolatilityTolerance |-> 18, maxConcentrationLimit |-> 25]
    [] categoryCode = 4 -> [maxDrawdownTolerance |-> 35, maxVolatilityTolerance |-> 22, maxConcentrationLimit |-> 30]
    [] categoryCode = 5 -> [maxDrawdownTolerance |-> 50, maxVolatilityTolerance |-> 30, maxConcentrationLimit |-> 35]

Clamp100(x) == Max(0, Min(100, x))

\* liquidNetWorth and annualIncome are carried in thousands of dollars
CapacityScore(investor) ==
  Min(100, RoundDiv(investor.liquidNetWorth * 120 + investor.annualIncome * 300 + 90000, 3000))

TimeHorizonScore(investor) ==
  IF investor.investmentHorizon = "LONG_TERM" THEN 75
  ELSE IF investor.investmentHorizon = "MEDIUM_TERM" THEN 50 ELSE 25

\* rnd: the rounded contributions of the three Math.random() draws
generateProfile(investor, assessment, profileId, rnd, t) ==
  LET code == calculateRiskCategory(assessment.rawScore)
      compositeRiskScore == assessment.percentileScore
  IN Merge(
      [profileId |-> profileId,
       investorId |-> investor.investorId,
       assessmentId |-> assessment.assessmentId,
       isActive |-> TRUE,
       riskToleranceScore |-> Clamp100(compositeRiskScore + rnd.tolerance),
       riskCapacityScore |-> Clamp100(CapacityScore(investor)),
       riskRequiredScore |-> Clamp100(60 + rnd.required),
       compositeRiskScore |-> compositeRiskScore,
       riskCategoryCode |-> code,
       lossAversionScore |-> 100 - compositeRiskScore,
       volatilityToleranceScore |-> compositeRiskScore - 5 + rnd.volTolerance,
       timeHorizonScore |-> TimeHorizonScore(investor),
       recommendedAllocation |-> getRecommendedAllocation(code),
       validFrom |-> t,
       validTo |-> Null],
      getRiskLimits(code))

----------------------------------------------------------------------------
(* riskEngine.js.  A holding is [symbol, sector, securityType, weight,     *)
(* marketValue] with optional beta (hundredths) and annualizedVolatility   *)
(* (percent); weights are whole percents, market values whole dollars.     *)

\* Number(x.toFixed(2)) of the rational n/d (d > 0), in hundredths when n is:
\* the nearest integer, halves away from zero
ToFixed(n, d) == IF n >= 0 THEN (2 * n + d) \div (2 * d) ELSE -((2 * (-n) + d) \div (2 * d))

getDefaultVolatility(sector, securityType) ==
  IF securityType = "BOND" THEN 6
  ELSE IF securityType = "ETF" THEN 15
  ELSE CASE sector = "TECHNOLOGY" -> 28
         [] sector = "FINANCIAL" -> 22
         [] sector = "HEALTHCARE" -> 18
         [] sector = "CONSUMER_DISCRETIONARY" -> 20
         [] sector = "CONSUMER_STAPLES" -> 14
         [] sector = "UTILITIES" -> 12
         [] sector = "ENERGY" -> 26
         [] sector = "REAL_ESTATE" -> 20
         [] sector = "INDUSTRIALS" -> 19
         [] sector = "MATERIALS" -> 21
         [] sector = "TELECOMMUNICATIONS" -> 18
         [] OTHER -> 20

getDefaultBeta(sector, securityType) ==
  IF securityType = "BOND" THEN 10
  ELSE IF securityType = "ETF" THEN 100
  ELSE CASE sector = "TECHNOLOGY" -> 125
         [] sector = "FINANCIAL" -> 115
         [] sector = "HEALTHCARE" -> 85
         [] sector = "CONSUMER_DISCRETIONARY" -> 105
         [] sector = "CONSUMER_STAPLES" -> 70
         [] sector = "UTILITIES" -> 60
         [] sector = "ENERGY" -> 110
         [] sector = "REAL_ESTATE" -> 95
         [] sector = "INDUSTRIALS" -> 108
         [] sector = "MATERIALS" -> 112
         [] sector = "TELECOMMUNICATIONS" -> 80
         [] OTHER -> 100

SectorOf(h) == IF Has(h, "sector") THEN h.sector ELSE "OTHER"

\* holding.annualizedVolatility || getDefaultVolatility(...)
HoldingVolatility(h) ==
  IF Has(h, "annualizedVolatility") /\ h.annualizedVolatility # 0
  THEN h.annualizedVolatility
  ELSE getDefaultVolatility(SectorOf(h), h.securityType)

\* holding.beta || getDefaultBeta(...)
HoldingBeta(h) ==
  IF Has(h, "beta") /\ h.beta # 0 THEN h.beta ELSE getDefaultBeta(SectorOf(h), h.securityType)

\* in hundredths of a percent
calculatePortfolioVolatility(holdings) ==
  IF Len(holdings) = 0 THEN 0
  ELSE SumSeq([k \in 1..Len(holdings) |-> holdings[k].weight * HoldingVolatility(holdings[k])])

\* in hundredths
calculatePortfolioBeta(holdings) ==
  IF Len(holdings) = 0 THEN 100
  ELSE ToFixed(SumSeq([k \in 1..Len(holdings) |-> holdings[k].weight * HoldingBeta(holdings[k])]), 100)

\* the largest integer between low and high whose square is at most x
RECURSIVE SquareRoot(_, _, _)
SquareRoot(x, low, high) ==
  IF low >= high THEN low
  ELSE IF ((low + high + 1) \div 2) * ((low + high + 1) \div 2) <= x
       THEN SquareRoot(x, (low + high + 1) \div 2, high)
       ELSE SquareRoot(x, low, (low + high + 1) \div 2 - 1)

\* the integer nearest to a / (b * sqrt(3)), for a >= 0 and b > 0; the quotient
\* is irrational unless a = 0, so there are no halves
RoundedOverRoot3(a, b) == (SquareRoot((4 * a * a) \div (3 * b * b), 0, 2 * a) + 1) \div 2

calculateVaRSwapped(totalValue, portfolioVolatility) ==
  [var95_percent |-> -RoundedOverRoot3(1163 * portfolioVolatility, 10),
   var95_dollar |-> -RoundedOverRoot3(1163 * totalValue * portfolioVolatility, 1),
   var99_percent |-> -RoundedOverRoot3(329 * portfolioVolatility, 4),
   var99_dollar |-> -RoundedOverRoot3(1645 * totalValue * portfolioVolatility, 2)]

\* totalValue in thousands of dollars, portfolioVolatility in whole percents;
\* the percentages in hundredths, the dollars in cents.  With sqrt(12) =
\* 2 sqrt(3): 164.5 v / sqrt(12) = 329 v / (4 sqrt(3)), 232.6 v / sqrt(12) =
\* 1163 v / (10 sqrt(3)), and for the dollars 1645 t v / (2 sqrt(3)) and
\* 1163 t v / sqrt(3)
calculateVaR(totalValue, portfolioVolatility) ==
  [var95_percent |-> -RoundedOverRoot3(329 * portfolioVolatility, 4),
   var95_dollar |-> -RoundedOverRoot3(1645 * totalValue * portfolioVolatility, 2),
   var99_percent |-> -RoundedOverRoot3(1163 * portfolioVolatility, 10),
   var99_dollar |-> -RoundedOverRoot3(1163 * totalValue * portfolioVolatility, 1)]

\* in hundredths of a percent, from beta and volatility in hundredths
calculateMaxDrawdown(portfolioBeta, portfolioVolatility) ==
  ToFixed(2 * (-1500) + 2 * (portfolioBeta - 100) * 8 + (portfolioVolatility - 1500), 2)

calculatePortfolioRisk(portfolioData) ==
  LET portfolioBeta == calculatePortfolioBeta(portfolioData.holdings)
      portfolioVolatility == calculatePortfolioVolatility(portfolioData.holdings)
  IN [totalValue |-> portfolioData.totalValue,
      portfolioVolatility |-> portfolioVolatility,
      portfolioBeta |-> portfolioBeta,
      maxDrawdown |-> calculateMaxDrawdown(portfolioBeta, portfolioVolatility)]

----------------------------------------------------------------------------
(* concentrationService.js *)

\* Array.prototype.sort((a, b) => b[f] - a[f]): stable, descending
RECURSIVE InsertDesc(_, _, _)
InsertDesc(sorted, x, f) ==
  IF sorted = <<>> THEN <<x>>
  ELSE IF Head(sorted)[f] >= x[f]
       THEN <<Head(sorted)>> \o InsertDesc(Tail(sorted), x, f)
       ELSE <<x>> \o sorted

RECURSIVE SortDesc(_, _)
SortDesc(s, f) ==
  IF s = <<>> THEN <<>>
  ELSE InsertDesc(SortDesc(SubSeq(s, 1, Len(s) - 1), f), s[Len(s)], f)

\* Array.prototype.sort((a, b) => a[f] - b[f]): stable, ascending
RECURSIVE InsertAsc(_, _, _)
InsertAsc(sorted, x, f) ==
  IF sorted = <<>> THEN <<x>>
  ELSE IF Head(sorted)[f] <= x[f]
       THEN <<Head(sorted)>> \o InsertAsc(Tail(sorted), x, f)
       ELSE <<x>> \o sorted

RECURSIVE SortAsc(_, _)
SortAsc(s, f) ==
  IF s = <<>> THEN <<>>
  ELSE InsertAsc(SortAsc(SubSeq(s, 1, Len(s) - 1), f), s[Len(s)], f)

Take(s, n) == SubSeq(s, 1, Min(n, Len(s)))

\* sum of (weight/100)^2, in units of 1/10000
calculateHerfindahlIndex(holdings) ==
  SumSeq([k \in 1..Len(holdings) |-> holdings[k].weight * holdings[k].weight])

calculateEffectivePositionsTruncated(herfindahlIndex) ==
  IF herfindahlIndex > 0 THEN 100000 \div herfindahlIndex ELSE 0

\* 1 / herfindahlIndex as reported, in tenths: effectivePositions.toFixed(1)
calculateEffectivePositions(herfindahlIndex) ==
  IF herfindahlIndex > 0 THEN ToFixed(100000, herfindahlIndex) ELSE 0

analyzeSinglePositionAtLimit(holdings, limit) ==
  LET sorted == SortDesc(holdings, "weight")
      topHolding == sorted[1]
      breach == topHolding.weight - limit
  IN [topHolding |-> topHolding.symbol,
      topHoldingWeight |-> topHolding.weight,
      limit |-> limit,
      status |-> IF breach >= 0 THEN "BREACHED" ELSE "COMPLIANT",
      breach |-> IF breach > 0 THEN breach ELSE 0]

analyzeSinglePosition(holdings, limit) ==
  LET sorted == SortDesc(holdings, "weight")
      topHolding == sorted[1]
      breach == topHolding.weight - limit
  IN [topHolding |-> topHolding.symbol,
      topHoldingWeight |-> topHolding.weight,
      limit |-> limit,
      status |-> IF breach > 0 THEN "BREACHED" ELSE "COMPLIANT",
      breach |-> IF breach > 0 THEN breach ELSE 0]

\* the sector totals in the order in which the sectors first appear
SectorTotals(holdings) ==
  LET firsts == SelectSeq([k \in 1..Len(holdings) |-> k],
                  LAMBDA k : \A j \in 1..(k - 1) : SectorOf(holdings[j]) # SectorOf(holdings[k]))
  IN [n \in 1..Len(firsts) |->
        [sector |-> SectorOf(holdings[firsts[n]]),
         weight |-> SumSeq([k \in 1..Len(holdings) |->
                       IF SectorOf(holdings[k]) = SectorOf(holdings[firsts[n]])
                       THEN holdings[k].weight ELSE 0])]]

analyzeSectorConcentration(holdings, limit) ==
  LET sectors == SortDesc(SectorTotals(holdings), "weight")
      topSector == sectors[1]
      breach == topSector.weight - limit
  IN [topSector |-> topSector.sector,
      topSectorWeight |-> topSector.weight,
      limit |-> limit,
      status |-> IF breach > 0 THEN "BREACHED" ELSE "COMPLIANT",
      breach |-> IF breach > 0 THEN breach ELSE 0,
      sectorBreakdown |-> sectors]

analyzeTop5Concentration(holdings, limit) ==
  LET sorted == SortDesc(holdings, "weight")
      top5 == Take(sorted, 5)
      top5Weight == SumSeq([k \in 1..Len(top5) |-> top5[k].weight])
      breach == top5Weight - limit
  IN [top5Weight |-> top5Weight,
      limit |-> limit,
      status |-> IF breach > 0 THEN "BREACHED" ELSE "COMPLIANT",
      breach |-> IF breach > 0 THEN breach ELSE 0]

determineConcentrationRiskExactlyTwo(singleStatus, sectorStatus, top5Status, herfindahlIndex) ==
  LET breachCount == Cardinality({k \in 1..3 :
                        <<singleStatus, sectorStatus, top5Status>>[k] = "BREACHED"})
  IN IF breachCount = 2 \/ herfindahlIndex > 1500 THEN "HIGH"
     ELSE IF breachCount = 1 \/ herfindahlIndex > 1000 THEN "ELEVATED"
     ELSE IF herfindahlIndex > 500 THEN "MODERATE"
     ELSE "LOW"

\* herfindahlIndex in units of 1/10000
determineConcentrationRisk(singleStatus, sectorStatus, top5Status, herfindahlIndex) ==
  LET breachCount == Cardinality({k \in 1..3 :
                        <<singleStatus, sectorStatus, top5Status>>[k] = "BREACHED"})
  IN IF breachCount >= 2 \/ herfindahlIndex > 1500 THEN "HIGH"
     ELSE IF breachCount = 1 \/ herfindahlIndex > 1000 THEN "ELEVATED"
     ELSE IF herfindahlIndex > 500 THEN "MODERATE"
     ELSE "LOW"

generateConcentrationAlerts(singlePosition, sectorConcentration, top5Concentration) ==
  (IF singlePosition.status = "BREACHED"
   THEN <<[alertType |-> "SINGLE_POSITION",
           severity |-> IF singlePosition.breach > 10 THEN "HIGH" ELSE "MEDIUM"]>>
   ELSE <<>>)
  \o (IF sectorConcentration.status = "BREACHED"
      THEN <<[alertType |-> "SECTOR",
              severity |-> IF sectorConcentration.breach > 15 THEN "HIGH" ELSE "MEDIUM"]>>
      ELSE <<>>)
  \o (IF top5Concentration.status = "BREACHED"
      THEN <<[alertType |-> "TOP5_HOLDINGS",
              severity |-> IF top5Concentration.breach > 20 THEN "HIGH" ELSE "MEDIUM"]>>
      ELSE <<>>)

DefaultThresholds == [singlePositionLimit |-> 10, sectorLimit |-> 25, top5Limit |-> 50]

\* thresholds: the fields given override the defaults 10 / 25 / 50.
\* sorted[0].weight of an empty array raises a TypeError.
analyzeConcentration(holdings, thresholds) ==
  IF Len(holdings) = 0
  THEN [ok |-> FALSE, error |-> "TypeError"]
  ELSE
    LET limits == Merge(DefaultThresholds, thresholds)
        singlePosition == analyzeSinglePosition(holdings, limits.singlePositionLimit)
        sectorConcentration == analyzeSectorConcentration(holdings, limits.sectorLimit)
        top5Concentration == analyzeTop5Concentration(holdings, limits.top5Limit)
        herfindahlIndex == calculateHerfindahlIndex(holdings)
    IN [ok |-> TRUE,
        concentrationAnalysis |->
          [singlePosition |-> singlePosition,
           sectorConcentration |-> sectorConcentration,
           top5Concentration |-> top5Concentration,
           herfindahlIndex |-> ToFixed(herfindahlIndex, 10),
           effectivePositions |-> calculateEffectivePositions(herfindahlIndex),
           overallConcentrationRisk |->
             determineConcentrationRisk(singlePosition.status, sectorConcentration.status,
                                        top5Concentration.status, herfindahlIndex)],
        alerts |-> generateConcentrationAlerts(singlePosition, sectorConcentration, top5Concentration)]

----------------------------------------------------------------------------
(* suitabilityService.js.  null is the empty tuple None, a present value   *)
(* x is Some(x).                                                           *)

None == <<>>

Some(x) == <<x>>

\* volatility and drawdown in hundredths of a percent, tolerances in percent
evaluateRiskAlignment(portfolioVolatility, maxVolatilityTolerance, maxDrawdown, maxDrawdownTolerance) ==
  LET volDiff == portfolioVolatility - 100 * maxVolatilityTolerance
      drawdownDiff == Abs(maxDrawdown) - 100 * maxDrawdownTolerance
  IN IF volDiff <= 200 /\ drawdownDiff <= 500 THEN [score |-> 85, status |-> "ALIGNED"]
     ELSE IF volDiff <= 500 /\ drawdownDiff <= 1000 THEN [score |-> 70, status |-> "MINOR_DEVIATION"]
     ELSE [score |-> 45, status |-> "MISALIGNED"]

evaluateAllocationAlignment(actual, recommended) ==
  LET equityDiff == Abs(actual.equities - recommended.equities)
      fixedIncomeDiff == Abs(actual.fixedIncome - recommended.fixedIncome)
  IN IF equityDiff <= 5 /\ fixedIncomeDiff <= 5
     THEN [score |-> 90, status |-> "ALIGNED", actual |-> actual, recommended |-> recommended]
     ELSE IF equityDiff <= 15 /\ fixedIncomeDiff <= 15
     THEN [score |-> 72, status |-> "MINOR_DEVIATION", actual |-> actual, recommended |-> recommended]
     ELSE [score |-> 50, status |-> "SIGNIFICANT_DEVIATION", actual |-> actual, recommended |-> recommended]

\* sectorConcentration: the { sector: weight } object as the sequence of its
\* Object.entries
evaluateConcentrationCompliance(topHoldingWeight, sectorConcentration, maxConcentrationLimit) ==
  LET sorted == SortDesc(sectorConcentration, "weight")
      topSectorWeight == IF sorted = <<>> THEN 0 ELSE sorted[1].weight
      singleBreach == topHoldingWeight > maxConcentrationLimit
      sectorBreach == topSectorWeight > maxConcentrationLimit + 5
  IN IF ~singleBreach /\ ~sectorBreach THEN [score |-> 95, status |-> "COMPLIANT"]
     ELSE IF singleBreach /\ ~sectorBreach THEN [score |-> 60, status |-> "MINOR_NON_COMPLIANT"]
     ELSE [score |-> 45, status |-> "NON_COMPLIANT"]

evaluateTimeHorizonFit(investorHorizon, portfolioVolatility) ==
  IF investorHorizon = "LONG_TERM" THEN [score |-> 85, status |-> "ALIGNED"]
  ELSE IF investorHorizon = "MEDIUM_TERM"
       THEN IF portfolioVolatility > 2000 THEN [score |-> 65, status |-> "CAUTION"]
            ELSE [score |-> 80, status |-> "ALIGNED"]
       ELSE IF portfolioVolatility > 1500 THEN [score |-> 40, status |-> "MISALIGNED"]
            ELSE [score |-> 75, status |-> "ALIGNED"]

DimensionNames == <<"riskAlignment", "allocationAlignment", "concentrationCompliance", "timeHorizonFit">>

calculateOverallSuitabilityFloor(dimensions) ==
  LET total == SumSeq([k \in 1..Len(DimensionNames) |-> dimensions[DimensionNames[k]].score])
      n == Len(DimensionNames)
  IN [overallRating |-> IF total >= 80 * n THEN "HIGHLY_SUITABLE"
                        ELSE IF total >= 70 * n THEN "SUITABLE"
                        ELSE IF total >= 60 * n THEN "SUITABLE_WITH_CAVEATS"
                        ELSE IF total >= 50 * n THEN "REVIEW_REQUIRED"
                        ELSE "NOT_SUITABLE",
      overallScore |-> total \div n]

\* a variant that reports the mean rounded up
calculateOverallSuitabilityCeiling(dimensions) ==
  LET total == SumSeq([k \in 1..Len(DimensionNames) |-> dimensions[DimensionNames[k]].score])
      n == Len(DimensionNames)
  IN [overallRating |-> IF total >= 80 * n THEN "HIGHLY_SUITABLE"
                        ELSE IF total >= 70 * n THEN "SUITABLE"
                        ELSE IF total >= 60 * n THEN "SUITABLE_WITH_CAVEATS"
                        ELSE IF total >= 50 * n THEN "REVIEW_REQUIRED"
                        ELSE "NOT_SUITABLE",
      overallScore |-> (total + n - 1) \div n]

\* avgScore is total / n; the rating bands test avgScore, the score is Math.round(avgScore)
calculateOverallSuitability(dimensions) ==
  LET total == SumSeq([k \in 1..Len(DimensionNames) |-> dimensions[DimensionNames[k]].score])
      n == Len(DimensionNames)
  IN [overallRating |-> IF total >= 80 * n THEN "HIGHLY_SUITABLE"
                        ELSE IF total >= 70 * n THEN "SUITABLE"
                        ELSE IF total >= 60 * n THEN "SUITABLE_WITH_CAVEATS"
                        ELSE IF total >= 50 * n THEN "REVIEW_REQUIRED"
                        ELSE "NOT_SUITABLE",
      overallScore |-> RoundDiv(total, n)]

\* portfolioData.maxDrawdown || -20
DrawdownOrDefault(portfolioData) ==
  IF Has(portfolioData, "maxDrawdown") /\ portfolioData.maxDrawdown # 0
  THEN portfolioData.maxDrawdown ELSE -2000

checkSuitability(investorId, portfolioData) ==
  LET p == ActiveProfileIndex(riskProfiles, investorId)
  IN IF p = 0 THEN [ok |-> FALSE, error |-> "No active risk profile found for investor"]
     ELSE IF ~Exists(investors, "investorId", investorId)
     THEN [ok |-> FALSE, error |-> "Investor not found"]
     ELSE IF ~Has(portfolioData, "assetAllocation")
     THEN [ok |-> FALSE, error |-> "TypeError"]
     ELSE
       LET profile == riskProfiles[p]
           investor == getById(investors, "investorId", investorId)
           riskAlignment == evaluateRiskAlignment(portfolioData.portfolioVolatility,
                               profile.maxVolatilityTolerance, DrawdownOrDefault(portfolioData),
                               profile.maxDrawdownTolerance)
           allocationAlignment == evaluateAllocationAlignment(portfolioData.assetAllocation,
                               profile.recommendedAllocation)
           concentrationCompliance == evaluateConcentrationCompliance(
                               IF Has(portfolioData, "topHoldingWeight") THEN portfolioData.topHoldingWeight ELSE 0,
                               IF Has(portfolioData, "sectorConcentration") THEN portfolioData.sectorConcentration ELSE <<>>,
                               profile.maxConcentrationLimit)
           timeHorizonFit == evaluateTimeHorizonFit(investor.investmentHorizon,
                               portfolioData.portfolioVolatility)
           dimensions == [riskAlignment |-> riskAlignment,
                          allocationAlignment |-> allocationAlignment,
                          concentrationCompliance |-> concentrationCompliance,
                          timeHorizonFit |-> timeHorizonFit]
           overall == calculateOverallSuitability(dimensions)
           requiredActions ==
             (IF concentrationCompliance.score < 70 THEN <<"Address concentration risk">> ELSE <<>>)
             \o (IF riskAlignment.score < 70
                 THEN <<"Reduce portfolio volatility to match risk tolerance">> ELSE <<>>)
             \o (IF allocationAlignment.score < 70
                 THEN <<"Rebalance to recommended asset allocation">> ELSE <<>>)
       IN [ok |-> TRUE,
           suitabilityAssessment |-> Merge(overall, [dimensions |-> dimensions]),
           riskProfile |-> [profileId |-> profile.profileId,
                            maxVolatilityTolerance |-> profile.maxVolatilityTolerance,
                            maxDrawdownTolerance |-> profile.maxDrawdownTolerance],
           actionRequired |-> Len(requiredActions) > 0,
           requiredActions |-> requiredActions]

----------------------------------------------------------------------------
(* stressTestService.js.  A scenario is [scenarioId, shockParameters] with *)
(* an optional sectorShocks, a function from sector tags to percents.      *)

\* scenario.sectorShocks[sector] || scenario.shockParameters.equityShock
SectorShock(sector, scenario) ==
  IF sector \in DOMAIN scenario.sectorShocks /\ scenario.sectorShocks[sector] # 0
  THEN scenario.sectorShocks[sector]
  ELSE scenario.shockParameters.equityShock

\* values in cents, percents in hundredths
applyStressToHolding(holding, scenario) ==
  LET sector == SectorOf(holding)
      shockPercent == IF holding.securityType = "BOND"
                      THEN scenario.shockParameters.bondShock
                      ELSE SectorShock(sector, scenario)
      stressedValue == holding.marketValue * (100 + shockPercent)
  IN [symbol |-> holding.symbol,
      sector |-> sector,
      currentValue |-> holding.marketValue,
      stressedValue |-> stressedValue,
      loss |-> stressedValue - 100 * holding.marketValue,
      lossPercent |-> 100 * shockPercent]

\* applyStressToHolding with its exception: scenario.sectorShocks[sector] is
\* evaluated first, for every kind of holding
StressedHolding(holding, scenario) ==
  IF ~Has(scenario, "sectorShocks") THEN [ok |-> FALSE, error |-> "TypeError"]
  ELSE [ok |-> TRUE, impact |-> applyStressToHolding(holding, scenario)]

SymbolAndLoss(s) == [k \in 1..Len(s) |-> [symbol |-> s[k].symbol, lossPercent |-> s[k].lossPercent]]

\* dollarLoss in cents; percentageLoss = dollarLoss / totalValue * 100 is compared unrounded
RecoveryTime(dollarLoss, totalValue) ==
  IF dollarLoss > -20 * totalValue THEN "6-12 months (estimated)"
  ELSE IF dollarLoss > -30 * totalValue THEN "12-24 months (estimated)"
  ELSE IF dollarLoss > -40 * totalValue THEN "24-36 months (estimated)"
  ELSE "36+ months (estimated)"

runStressTest(investorId, scenarioId, portfolioData) ==
  IF ~Exists(scenarios, "scenarioId", scenarioId)
  THEN [ok |-> FALSE, error |-> "Scenario not found"]
  ELSE
    LET scenario == getById(scenarios, "scenarioId", scenarioId)
        totalValue == portfolioData.totalValue
        holdings == portfolioData.holdings
    IN IF Len(holdings) > 0 /\ ~Has(scenario, "sectorShocks")
       THEN [ok |-> FALSE, error |-> "TypeError"]
       ELSE
         LET holdingImpacts == [k \in 1..Len(holdings) |-> applyStressToHolding(holdings[k], scenario)]
             stressedValue == SumSeq([k \in 1..Len(holdingImpacts) |-> holdingImpacts[k].stressedValue])
             dollarLoss == stressedValue - 100 * totalValue
             sorted == SortAsc(holdingImpacts, "lossPercent")
             p == ActiveProfileIndex(riskProfiles, investorId)
             exceedsTolerance == Abs(dollarLoss) > riskProfiles[p].maxDrawdownTolerance * totalValue
         IN [ok |-> TRUE,
             scenarioResults |->
               [scenarioId |-> scenario.scenarioId,
                portfolioImpact |->
                  [currentValue |-> totalValue,
                   stressedValue |-> stressedValue,
                   dollarLoss |-> dollarLoss,
                   percentageLoss |-> ToFixed(100 * dollarLoss, totalValue),
                   recoveryTime |-> RecoveryTime(dollarLoss, totalValue)],
                holdingImpacts |-> holdingImpacts,
                worstHit |-> SymbolAndLoss(Take(sorted, 3)),
                bestProtected |-> SymbolAndLoss(SubSeq(sorted, Max(1, Len(sorted) - 1), Len(sorted)))],
             riskProfileComparison |->
               IF p = 0 THEN None
               ELSE Some([maxDrawdownTolerance |-> riskProfiles[p].maxDrawdownTolerance,
                          scenarioDrawdown |-> ToFixed(100 * Abs(dollarLoss), totalValue),
                          exceedsToleranceBy |->
                            IF exceedsTolerance
                            THEN ToFixed(100 * (Abs(dollarLoss)
                                   - riskProfiles[p].maxDrawdownTolerance * totalValue), totalValue)
                            ELSE 0,
                          warning |-> exceedsTolerance])]

\* scenarioIds.map(id => runStressTest(...)): the first exception ends the map
RECURSIVE MapStressTests(_, _, _, _)
MapStressTests(investorId, scenarioIds, portfolioData, done) ==
  IF scenarioIds = <<>> THEN [ok |-> TRUE, results |-> done]
  ELSE LET r == runStressTest(investorId, Head(scenarioIds), portfolioData)
       IN IF ~r.ok THEN r
          ELSE MapStressTests(investorId, Tail(scenarioIds), portfolioData, Append(done, r))

runMultipleStressTests(investorId, scenarioIds, portfolioData) ==
  MapStressTests(investorId, scenarioIds, portfolioData, <<>>)

----------------------------------------------------------------------------
(* recommendationService.js.  analysisData is [portfolioRisk,              *)
(* concentrationAnalysis, suitabilityAssessment], the last one None when   *)
(* the investor has no active profile.                                     *)

SinglePositionRule(analysisData) ==
  LET conc == analysisData.concentrationAnalysis.concentrationAnalysis
  IN IF conc.singlePosition.status = "BREACHED"
     THEN <<[suffix |-> "A", category |-> "REBALANCING",
             priority |-> IF conc.singlePosition.breach > 10 THEN "HIGH" ELSE "MEDIUM",
             currentValue |-> conc.singlePosition.topHoldingWeight,
             targetValue |-> conc.singlePosition.limit]>>
     ELSE <<>>

SectorRule(analysisData) ==
  LET conc == analysisData.concentrationAnalysis.concentrationAnalysis
  IN IF conc.sectorConcentration.status = "BREACHED"
     THEN <<[suffix |-> "B", category |-> "DIVERSIFICATION",
             priority |-> IF conc.sectorConcentration.breach > 15 THEN "HIGH" ELSE "MEDIUM",
             currentValue |-> conc.sectorConcentration.topSectorWeight,
             targetValue |-> conc.sectorConcentration.limit]>>
     ELSE <<>>

AllocationRule(analysisData) ==
  IF analysisData.suitabilityAssessment = None THEN <<>>
  ELSE LET alloc == analysisData.suitabilityAssessment[1].suitabilityAssessment.dimensions.allocationAlignment
           equityDiff == alloc.actual.equities - alloc.recommended.equities
       IN IF alloc.score < 80 /\ Abs(equityDiff) > 10
          THEN <<[suffix |-> "C", category |-> "REBALANCING", priority |-> "MEDIUM",
                  currentValue |-> alloc.actual.equities,
                  targetValue |-> alloc.recommended.equities]>>
          ELSE <<>>

VolatilityRule(analysisData) ==
  IF analysisData.portfolioRisk.portfolioVolatility > 2000
  THEN <<[suffix |-> "D", category |-> "RISK_REDUCTION", priority |-> "MEDIUM",
          currentValue |-> analysisData.portfolioRisk.portfolioVolatility,
          targetValue |-> 1800]>>
  ELSE <<>>

\* a variant that also appends the INCOME item after exactly three items
IncomeRuleUpToThree(analysisData, soFar) ==
  IF analysisData.suitabilityAssessment # None /\ Len(soFar) <= 3
  THEN <<[suffix |-> "E", category |-> "INCOME", priority |-> "LOW",
          currentValue |-> 8, targetValue |-> 15]>>
  ELSE <<>>

IncomeRule(analysisData, soFar) ==
  IF analysisData.suitabilityAssessment # None /\ Len(soFar) < 3
  THEN <<[suffix |-> "E", category |-> "INCOME", priority |-> "LOW",
          currentValue |-> 8, targetValue |-> 15]>>
  ELSE <<>>

RuleOutputs(analysisData) ==
  LET ruled == SinglePositionRule(analysisData) \o SectorRule(analysisData)
                 \o AllocationRule(analysisData) \o VolatilityRule(analysisData)
  IN ruled \o IncomeRule(analysisData, ruled)

Summary(n) ==
  IF n = 0 THEN "well-aligned" ELSE IF n <= 2 THEN "generally aligned" ELSE "requires attention"

\* The record that generateRecommendations builds when counters.recommendation is
\* firstId: every rule that fires takes the next id, the record takes the last one.
RecommendationRecord(investorId, profileId, analysisData, firstId, t) ==
  LET outputs == RuleOutputs(analysisData)
      suit == analysisData.suitabilityAssessment
  IN [recommendationId |-> firstId + Len(outputs),
      investorId |-> investorId,
      profileId |-> profileId,
      generatedDate |-> t,
      status |-> "ACTIVE",
      overallAssessment |->
        [suitabilityScore |-> IF suit # None /\ suit[1].suitabilityAssessment.overallScore # 0
                              THEN suit[1].suitabilityAssessment.overallScore ELSE 75,
         suitabilityRating |-> IF suit # None THEN suit[1].suitabilityAssessment.overallRating
                               ELSE "SUITABLE",
         summary |-> Summary(Len(outputs))],
      recommendations |->
        [k \in 1..Len(outputs) |-> Merge(outputs[k], [recommendationId |-> firstId + k - 1])]]

\* generateId('recommendation') calls made by one generateRecommendations call
IdsTaken(record) == Len(record.recommendations) + 1

----------------------------------------------------------------------------
(* Inputs *)

InvestorIds == 1..(NumSeedInvestors + 1)

AllOf(o) == [q \in 1..NumQuestions |-> [questionId |-> q, selectedOption |-> o]]

ValidResponses == {AllOf(4)}

InvalidResponses ==
  { <<[questionId |-> 99, selectedOption |-> 1], [questionId |-> 1, selectedOption |-> 1]>>,
    <<[questionId |-> 1, selectedOption |-> 1], [questionId |-> 2, selectedOption |-> 9],
      [questionId |-> 3, selectedOption |-> 1]>>,
    <<[questionId |-> 1, selectedOption |-> 1], [questionId |-> 77, selectedOption |-> 2]>> }

Stock(symbol, sector, weight, marketValue) ==
  [symbol |-> symbol, sector |-> sector, securityType |-> "STOCK",
   weight |-> weight, marketValue |-> marketValue]

Bond(symbol, weight, marketValue) ==
  [symbol |-> symbol, securityType |-> "BOND", weight |-> weight, marketValue |-> marketValue]

PBalanced ==
  [totalValue |-> 10000,
   holdings |-> <<Stock("AAPL", "TECHNOLOGY", 30, 3000), Stock("JPM", "FINANCIAL", 30, 3000),
                  Bond("BND", 40, 4000)>>,
   assetAllocation |-> [equities |-> 60, fixedIncome |-> 40]]

PTech ==
  [totalValue |-> 10000,
   holdings |-> <<Merge(Stock("NVDA", "TECHNOLOGY", 45, 4500), [annualizedVolatility |-> 40]),
                  Stock("MSFT", "TECHNOLOGY", 35, 3500), Bond("BND", 20, 2000)>>,
   assetAllocation |-> [equities |-> 80, fixedIncome |-> 20]]

PNoAllocation ==
  [totalValue |-> 10000,
   holdings |-> <<Stock("AAPL", "TECHNOLOGY", 70, 7000), Stock("XOM", "ENERGY", 30, 3000)>>]

PEmpty ==
  [totalValue |-> 10000, holdings |-> <<>>,
   assetAllocation |-> [equities |-> 60, fixedIncome |-> 40]]

Portfolios == {PBalanced, PTech, PNoAllocation, PEmpty}

\* the largest position (28%) lies between the seeded investor 1's
\* maxConcentrationLimit less 5 (25) and the limit itself (30)
PNearLimit ==
  [totalValue |-> 10000,
   holdings |-> <<Stock("AAPL", "TECHNOLOGY", 28, 2800), Stock("JPM", "FINANCIAL", 24, 2400),
                  Stock("XOM", "ENERGY", 24, 2400), Bond("BND", 24, 2400)>>,
   assetAllocation |-> [equities |-> 76, fixedIncome |-> 24]]

ThresholdSets == {<<>>, [singlePositionLimit |-> 40, sectorLimit |-> 60]}

\* portfolioData as a client of POST /analysis/suitability supplies it
SuitabilityInputs ==
  { [portfolioVolatility |-> 1600, maxDrawdown |-> -1500,
     assetAllocation |-> [equities |-> 75, fixedIncome |-> 15],
     topHoldingWeight |-> 10,
     sectorConcentration |-> <<[sector |-> "TECHNOLOGY", weight |-> 20]>>],
    [portfolioVolatility |-> 2400, maxDrawdown |-> -3000,
     assetAllocation |-> [equities |-> 20, fixedIncome |-> 60],
     topHoldingWeight |-> 40,
     sectorConcentration |-> <<[sector |-> "TECHNOLOGY", weight |-> 50]>>],
    [portfolioVolatility |-> 900, maxDrawdown |-> -1200] }

\* request bodies of the documented schema; sectorShocks is optional
ScenarioBodies == { [shockParameters |-> [equityShock |-> -20, bondShock |-> 2]] }

ScenarioIdLists == {<<1>>, <<2>>, <<1, 2>>, <<2, 1>>, <<1, 9>>, <<9, 1>>, <<2, 9>>}

RandomDraws == { [tolerance |-> -5, required |-> -10, volTolerance |-> 0],
                 [tolerance |-> 5, required |-> 10, volTolerance |-> 10] }

----------------------------------------------------------------------------
(* seed.js: the state after seedData() *)

SeedHorizon(i) == IF i = 1 THEN "SHORT_TERM" ELSE IF i = 2 THEN "MEDIUM_TERM" ELSE "LONG_TERM"

SeedInvestor(i) ==
  [investorId |-> i, investmentHorizon |-> SeedHorizon(i),
   liquidNetWorth |-> 250 * i, annualIncome |-> 90 * i]

SeedAssessment(i) ==
  LET scored == scoreAssessment(AllOf(IF i = 1 THEN 4 ELSE 2))
  IN [assessmentId |-> i, investorId |-> i, responses |-> scored.responses,
      rawScore |-> scored.rawScore, percentileScore |-> scored.percentileScore,
      createdAt |-> 0]

SeedProfile(i) ==
  generateProfile(SeedInvestor(i), SeedAssessment(i), i,
                  [tolerance |-> 0, required |-> 0, volTolerance |-> 5], 0)

\* data/scenarios.json: SCN-001 is the 2008 crisis with an equity shock of -45%
SeedScenario(i) ==
  [scenarioId |-> i,
   shockParameters |-> [equityShock |-> -45, bondShock |-> 5],
   sectorShocks |-> [s \in {"FINANCIAL", "TECHNOLOGY"} |-> IF s = "FINANCIAL" THEN -60 ELSE -40]]

Init ==
  /\ investors = [i \in 1..NumSeedInvestors |-> SeedInvestor(i)]
  /\ riskAssessments = [i \in 1..NumSeedInvestors |-> SeedAssessment(i)]
  /\ riskProfiles = [i \in 1..NumSeedInvestors |-> SeedProfile(i)]
  /\ recommendations = <<>>
  /\ riskScores = <<>>
  /\ sseSessions = <<>>
  /\ scenarios = [i \in 1..NumSeedScenarios |-> SeedScenario(i)]
  /\ counters = [investor |-> 1, assessment |-> NumSeedInvestors + 1,
                 profile |-> NumSeedInvestors + 1, score |-> 1, scenario |-> 1,
                 recommendation |-> 1]
  /\ now = 1
  /\ response = [op |-> "seed", status |-> 200]

----------------------------------------------------------------------------
(* routes/assessments.js: POST /assessments *)

\* a variant that leaves the investor's earlier profiles as they are
SupersedeNothing(profiles, investorId, profileId, t) == profiles

\* the forEach over getWhere('riskProfiles', investorId) after the new
\* profile is added
Supersede(profiles, investorId, profileId, t) ==
  [k \in 1..Len(profiles) |->
     IF profiles[k].investorId = investorId /\ profiles[k].profileId # profileId
     THEN Merge(profiles[k], [isActive |-> FALSE, validTo |-> t])
     ELSE profiles[k]]

SubmitAssessment(investorId, responses, rnd) ==
  /\ LET scored == scoreAssessment(responses)
     IN IF ~Exists(investors, "investorId", investorId)
        THEN /\ response' = [op |-> "assessment", status |-> 404]
             /\ UNCHANGED <<riskScores, sseSessions, investors, riskProfiles, riskAssessments, recommendations,
                            scenarios, counters, now>>
        ELSE IF ~scored.ok
        THEN /\ response' = [op |-> "assessment", status |-> 500]
             /\ UNCHANGED <<riskScores, sseSessions, investors, riskProfiles, riskAssessments, recommendations,
                            scenarios, counters, now>>
        ELSE /\ Len(riskProfiles) < MaxProfiles
             /\ LET investor == getById(investors, "investorId", investorId)
                    assessment == [assessmentId |-> counters.assessment,
                                   investorId |-> investorId,
                                   responses |-> scored.responses,
                                   rawScore |-> scored.rawScore,
                                   percentileScore |-> scored.percentileScore,
                                   createdAt |-> now]
                    profile == generateProfile(investor, assessment, counters.profile, rnd, now)
                    added == Append(riskProfiles, profile)
                IN /\ riskAssessments' = Append(riskAssessments, assessment)
                   /\ riskProfiles' = Supersede(added, investorId, profile.profileId, now)
                   /\ counters' = [counters EXCEPT !.assessment = @ + 1, !.profile = @ + 1]
                   /\ response' = [op |-> "assessment", status |-> 201,
                                   data |-> [assessmentId |-> assessment.assessmentId,
                                             profileId |-> profile.profileId]]
             /\ now' = now + 1
             /\ UNCHANGED <<riskScores, sseSessions, investors, recommendations, scenarios>>

----------------------------------------------------------------------------
(* routes/profiles.js: POST /profiles (admin override), PUT /profiles/:id *)

AdminBody(investorId, code) ==
  Merge([investorId |-> investorId, riskCategoryCode |-> code,
         recommendedAllocation |-> getRecommendedAllocation(code)],
        getRiskLimits(code))

\* request bodies of the documented schema; isActive is optional
ProfileBodies == {Merge(AdminBody(1, 3), [isActive |-> TRUE]), AdminBody(2, 5)}

ProfileUpdates == {[isActive |-> TRUE], [isActive |-> FALSE]}

CreateProfile(body) ==
  /\ Len(riskProfiles) < MaxProfiles
  /\ LET profile == Merge([profileId |-> counters.profile], body)
     IN /\ riskProfiles' = Append(riskProfiles, profile)
        /\ counters' = [counters EXCEPT !.profile = @ + 1]
        /\ response' = [op |-> "createProfile", status |-> 201,
                        data |-> [profileId |-> profile.profileId]]
  /\ UNCHANGED <<riskScores, sseSessions, investors, riskAssessments, recommendations, scenarios, now>>

update(collection, idField, id, updates) ==
  LET index == FirstIndex(collection, idField, id)
  IN [collection EXCEPT ![index] = Merge(@, updates)]

UpdateProfile(profileId, updates) ==
  /\ IF ~Exists(riskProfiles, "profileId", profileId)
     THEN /\ response' = [op |-> "updateProfile", status |-> 404]
          /\ UNCHANGED <<riskScores, sseSessions, investors, riskProfiles, riskAssessments, recommendations,
                         scenarios, counters, now>>
     ELSE /\ riskProfiles' = update(riskProfiles, "profileId", profileId, updates)
          /\ response' = [op |-> "updateProfile", status |-> 200,
                          data |-> [profileId |-> profileId]]
          /\ UNCHANGED <<riskScores, sseSessions, investors, riskAssessments, recommendations, scenarios, counters, now>>

----------------------------------------------------------------------------
(* routes/scenarios.js: POST /scenarios *)

CreateScenario(body) ==
  /\ Len(scenarios) < MaxScenarios
  /\ scenarios' = Append(scenarios, Merge([scenarioId |-> counters.scenario], body))
  /\ counters' = [counters EXCEPT !.scenario = @ + 1]
  /\ response' = [op |-> "createScenario", status |-> 201,
                  data |-> [scenarioId |-> counters.scenario]]
  /\ UNCHANGED <<riskScores, sseSessions, investors, riskProfiles, riskAssessments, recommendations, now>>

----------------------------------------------------------------------------
(* routes/analysis.js.  XxxAnswer(req) is the response that the handler    *)
(* gives to the request req in the current state.                          *)

Failure(op, req, status, error) == [op |-> op, req |-> req, status |-> status, error |-> error]

Success(op, req, data) == [op |-> op, req |-> req, status |-> 200, data |-> data]

\* POST /analysis/portfolio-risk, req = [portfolioData]
PortfolioRiskAnswer(req) ==
  Success("portfolioRisk", req, calculatePortfolioRisk(req.portfolioData))

\* POST /analysis/concentration, req = [holdings, thresholds]
ConcentrationAnswer(req) ==
  LET analysis == analyzeConcentration(req.holdings, req.thresholds)
  IN IF analysis.ok THEN Success("concentration", req, analysis)
     ELSE Failure("concentration", req, 500, analysis.error)

\* POST /analysis/suitability, req = [investorId, portfolioData]
SuitabilityAnswer(req) ==
  LET analysis == checkSuitability(req.investorId, req.portfolioData)
  IN IF analysis.ok THEN Success("suitability", req, analysis)
     ELSE Failure("suitability", req, 500, analysis.error)

\* POST /analysis/stress-test with scenarioIds, req = [investorId, scenarioIds, portfolioData]
StressTestsAnswer(req) ==
  LET r == runMultipleStressTests(req.investorId, req.scenarioIds, req.portfolioData)
  IN IF r.ok THEN Success("stressTests", req, r.results)
     ELSE Failure("stressTests", req, 500, r.error)

\* POST /analysis/stress-test with scenarioId, req = [investorId, scenarioId, portfolioData]
StressTestAnswer(req) ==
  LET r == runStressTest(req.investorId, req.scenarioId, req.portfolioData)
  IN IF r.ok THEN Success("stressTest", req, r)
     ELSE Failure("stressTest", req, 500, r.error)

\* stressTestResults.sort((a, b) => a...percentageLoss - b...percentageLoss)
SortByLoss(results) ==
  LET keyed == [k \in 1..Len(results) |->
                  [key |-> results[k].scenarioResults.portfolioImpact.percentageLoss,
                   val |-> results[k]]]
      sorted == SortAsc(keyed, "key")
  IN [k \in 1..Len(sorted) |-> sorted[k].val]

OverallRiskLevel(p, portfolioRisk) ==
  IF p = 0 THEN "MODERATE"
  ELSE LET tolerance == 100 * riskProfiles[p].maxVolatilityTolerance
       IN IF portfolioRisk.portfolioVolatility > tolerance + 500 THEN "HIGH"
          ELSE IF portfolioRisk.portfolioVolatility > tolerance THEN "MODERATE_HIGH"
          ELSE IF portfolioRisk.portfolioVolatility < tolerance - 500 THEN "LOW"
          ELSE "MODERATE"

PriorityActions(recs) ==
  LET urgent == SelectSeq(recs, LAMBDA r : r.priority \in {"HIGH", "MEDIUM"})
  IN [k \in 1..Min(3, Len(urgent)) |-> urgent[k].suffix]

\* POST /analysis/comprehensive, req = [investorId, portfolioData, includeStressTests,
\* scenarioIds].  Each step below receives the results of the steps before it;
\* [ok |-> FALSE, ...] is an exception caught by the handler's try/catch.

\* response with the executive summary
SummaryStep(req, p, analysisData, stress, record) ==
  Success("comprehensive", req,
    [portfolioRisk |-> analysisData.portfolioRisk,
     concentrationAnalysis |-> analysisData.concentrationAnalysis,
     suitabilityAssessment |-> analysisData.suitabilityAssessment,
     stressTestResults |-> IF stress = None THEN None ELSE Some(SortByLoss(stress[1])),
     recommendations |-> record,
     executiveSummary |->
       [overallRiskLevel |-> OverallRiskLevel(p, analysisData.portfolioRisk),
        priorityActions |-> PriorityActions(record.recommendations)]])

\* 5. generateRecommendations
RecommendationStep(req, p, analysisData, stress) ==
  SummaryStep(req, p, analysisData, stress,
    RecommendationRecord(req.investorId,
                         IF p = 0 THEN Null ELSE riskProfiles[p].profileId,
                         analysisData, counters.recommendation, now))

\* 4. stress tests, if requested
StressStep(req, p, analysisData, stress) ==
  IF ~stress.ok THEN Failure("comprehensive", req, 500, stress.error)
  ELSE RecommendationStep(req, p, analysisData, stress.results)

\* 3. suitability, if the investor has an active profile
SuitabilityStep(req, p, portfolioRisk, concentrationAnalysis, suitability) ==
  IF ~suitability.ok THEN Failure("comprehensive", req, 500, suitability.error)
  ELSE StressStep(req, p,
         [portfolioRisk |-> portfolioRisk,
          concentrationAnalysis |-> concentrationAnalysis,
          suitabilityAssessment |-> suitability.result],
         IF req.includeStressTests /\ Len(req.scenarioIds) > 0
         THEN LET r == runMultipleStressTests(req.investorId, req.scenarioIds, req.portfolioData)
              IN IF r.ok THEN [ok |-> TRUE, results |-> Some(r.results)] ELSE r
         ELSE [ok |-> TRUE, results |-> None])

\* 2. concentration analysis with the profile's limits
ConcentrationStep(req, p, portfolioRisk, concentrationAnalysis) ==
  IF ~concentrationAnalysis.ok
  THEN Failure("comprehensive", req, 500, concentrationAnalysis.error)
  ELSE SuitabilityStep(req, p, portfolioRisk, concentrationAnalysis,
         IF p = 0 THEN [ok |-> TRUE, result |-> None]
         ELSE LET c == checkSuitability(req.investorId,
                         Merge(req.portfolioData,
                           [portfolioVolatility |-> portfolioRisk.portfolioVolatility,
                            maxDrawdown |-> portfolioRisk.maxDrawdown,
                            topHoldingWeight |->
                              concentrationAnalysis.concentrationAnalysis.singlePosition.topHoldingWeight,
                            sectorConcentration |->
                              concentrationAnalysis.concentrationAnalysis.sectorConcentration.sectorBreakdown]))
              IN IF c.ok THEN [ok |-> TRUE, result |-> Some(c)] ELSE c)

\* 1. portfolio risk
PortfolioRiskStep(req, p, portfolioRisk) ==
  ConcentrationStep(req, p, portfolioRisk,
    analyzeConcentration(req.portfolioData.holdings,
      IF p = 0 THEN <<>>
      ELSE [singlePositionLimit |-> riskProfiles[p].maxConcentrationLimit - 5,
            sectorLimit |-> riskProfiles[p].maxConcentrationLimit,
            top5Limit |-> 50]))

ComprehensiveAnswer(req) ==
  IF ~Exists(investors, "investorId", req.investorId)
  THEN Failure("comprehensive", req, 404, "Investor not found")
  ELSE PortfolioRiskStep(req, ActiveProfileIndex(riskProfiles, req.investorId),
                         calculatePortfolioRisk(req.portfolioData))

\* the handlers that only read the datastore
Calculate(answer) ==
  /\ response' = answer
  /\ UNCHANGED <<riskScores, sseSessions, investors, riskProfiles, riskAssessments, recommendations, scenarios,
                 counters, now>>

PortfolioRisk(req) ==
  /\ Calculate(PortfolioRiskAnswer(req))

Concentration(req) ==
  /\ Calculate(ConcentrationAnswer(req))

Suitability(req) ==
  /\ Calculate(SuitabilityAnswer(req))

StressTest(req) ==
  /\ Calculate(StressTestAnswer(req))

StressTests(req) ==
  /\ Calculate(StressTestsAnswer(req))

\* a variant that generates and stores the recommendations before the
\* stress tests run
ComprehensiveRecommendsFirst(req) ==
  /\ LET answer == ComprehensiveAnswer(req)
         early == ComprehensiveAnswer([req EXCEPT !.scenarioIds = <<>>])
     IN /\ response' = answer
        /\ IF early.status = 200
           THEN /\ Len(recommendations) < MaxRecommendations
                /\ recommendations' = Append(recommendations, early.data.recommendations)
                /\ counters' = [counters EXCEPT !.recommendation =
                                  @ + IdsTaken(early.data.recommendations)]
           ELSE UNCHANGED <<recommendations, counters>>
        /\ UNCHANGED <<riskScores, sseSessions, investors, riskProfiles, riskAssessments, scenarios, now>>

\* generateRecommendations stores the record it returns
Comprehensive(req) ==
  /\ LET answer == ComprehensiveAnswer(req)
     IN /\ response' = answer
        /\ IF answer.status = 200
           THEN /\ Len(recommendations) < MaxRecommendations
                /\ recommendations' = Append(recommendations, answer.data.recommendations)
                /\ counters' = [counters EXCEPT !.recommendation =
                                  @ + IdsTaken(answer.data.recommendations)]
           ELSE UNCHANGED <<recommendations, counters>>
        /\ UNCHANGED <<riskScores, sseSessions, investors, riskProfiles, riskAssessments, scenarios, now>>

\* investor 1 is seeded, UnknownInvestor is not stored
UnknownInvestor == NumSeedInvestors + 1

AnalysisInvestors == {1, UnknownInvestor}

ComprehensiveRequests ==
  [investorId : AnalysisInvestors, portfolioData : Portfolios \cup {PNearLimit},
   includeStressTests : {TRUE}, scenarioIds : {<<>>, <<1>>, <<1, 9>>}]

\* the request bodies of the analysis routes
PortfolioRiskRequests == {[portfolioData |-> pd] : pd \in Portfolios}

ConcentrationRequests ==
  {[holdings |-> pd.holdings, thresholds |-> th] : pd \in Portfolios, th \in ThresholdSets}

SuitabilityRequests == [investorId : AnalysisInvestors, portfolioData : SuitabilityInputs]

StressTestRequests ==
  [investorId : {1}, scenarioId : {1, 2, 9}, portfolioData : {PBalanced, PEmpty}]

StressTestsRequests ==
  [investorId : {1}, scenarioIds : ScenarioIdLists, portfolioData : {PBalanced}]

NextAnalysis ==
  \/ \E u \in ProfileUpdates : UpdateProfile(1, u)
  \/ \E body \in ScenarioBodies : CreateScenario(body)
  \/ \E req \in PortfolioRiskRequests : PortfolioRisk(req)
  \/ \E req \in ConcentrationRequests : Concentration(req)
  \/ \E req \in SuitabilityRequests : Suitability(req)
  \/ \E req \in StressTestRequests : StressTest(req)
  \/ \E req \in StressTestsRequests : StressTests(req)
  \/ \E req \in ComprehensiveRequests : Comprehensive(req)

SpecAnalysis == Init /\ [][NextAnalysis]_vars

----------------------------------------------------------------------------
(* Suitability dimensions as a pure calculation: the four evaluators and   *)
(* calculateOverallSuitability applied to inputs drawn from bounded sets,  *)
(* against the limits of a MODERATELY_AGGRESSIVE profile.                  *)

Volatilities == {1400, 1800, 2300}
Drawdowns == {-1500, -4200, -5000}
Allocations == {[equities |-> 75, fixedIncome |-> 15], [equities |-> 62, fixedIncome |-> 28],
                [equities |-> 30, fixedIncome |-> 60]}
TopWeights == {20, 45}
SectorWeights == {25, 50}
Horizons == {"SHORT_TERM", "MEDIUM_TERM", "LONG_TERM"}

Dimensions(vol, dd, actual, top, sectorWeight, horizon) ==
  [riskAlignment |-> evaluateRiskAlignment(vol, getRiskLimits(4).maxVolatilityTolerance,
                                           dd, getRiskLimits(4).maxDrawdownTolerance),
   allocationAlignment |-> evaluateAllocationAlignment(actual, getRecommendedAllocation(4)),
   concentrationCompliance |-> evaluateConcentrationCompliance(top,
                                 <<[sector |-> "TECHNOLOGY", weight |-> sectorWeight]>>,
                                 getRiskLimits(4).maxConcentrationLimit),
   timeHorizonFit |-> evaluateTimeHorizonFit(horizon, vol)]

OverallSuitability(dimensions) ==
  /\ response' = [op |-> "overallSuitability", req |-> dimensions, status |-> 200,
                  data |-> calculateOverallSuitability(dimensions)]
  /\ UNCHANGED <<riskScores, sseSessions, investors, riskProfiles, riskAssessments, recommendations, scenarios,
                 counters, now>>

\* the results of the four evaluators for every combination of the inputs
DimensionSets ==
  {Dimensions(vol, dd, actual, top, sectorWeight, horizon) :
     vol \in Volatilities, dd \in Drawdowns, actual \in Allocations, top \in TopWeights,
     sectorWeight \in SectorWeights, horizon \in Horizons}

NextSuitability ==
  \E dimensions \in DimensionSets : OverallSuitability(dimensions)

SpecSuitability == Init /\ [][NextSuitability]_vars

----------------------------------------------------------------------------
(* The calculation services as pure functions: each action applies one of  *)
(* them to inputs drawn from bounded sets and records the result.          *)

Calculated(op, req, data) ==
  /\ response' = [op |-> op, req |-> req, status |-> 200, data |-> data]
  /\ UNCHANGED <<riskScores, sseSessions, investors, riskProfiles, riskAssessments, recommendations, scenarios,
                 counters, now>>

\* results of analyzeSinglePosition and analyzeSectorConcentration against a limit of 10 and 25
SinglePositionResults ==
  {[status |-> "COMPLIANT", breach |-> 0, topHoldingWeight |-> 8, limit |-> 10],
   [status |-> "BREACHED", breach |-> 5, topHoldingWeight |-> 15, limit |-> 10],
   [status |-> "BREACHED", breach |-> 15, topHoldingWeight |-> 25, limit |-> 10]}

SectorResults ==
  {[status |-> "COMPLIANT", breach |-> 0, topSectorWeight |-> 20, limit |-> 25],
   [status |-> "BREACHED", breach |-> 10, topSectorWeight |-> 35, limit |-> 25],
   [status |-> "BREACHED", breach |-> 20, topSectorWeight |-> 45, limit |-> 25]}

\* null, or a suitability result whose allocation dimension compares an actual
\* allocation with the MODERATELY_AGGRESSIVE recommendation
SuitabilityResults ==
  {None} \cup
  {Some([suitabilityAssessment |->
           [overallScore |-> 80, overallRating |-> "HIGHLY_SUITABLE",
            dimensions |-> [allocationAlignment |->
               evaluateAllocationAlignment(actual, getRecommendedAllocation(4))]]]) :
     actual \in Allocations \cup {[equities |-> 68, fixedIncome |-> 28]}}

RuleVolatilities == {1500, 2000, 2500}

AnalysisDataSets ==
  {[portfolioRisk |-> [portfolioVolatility |-> vol],
    concentrationAnalysis |->
      [concentrationAnalysis |-> [singlePosition |-> single, sectorConcentration |-> sector]],
    suitabilityAssessment |-> suit] :
     vol \in RuleVolatilities, single \in SinglePositionResults,
     sector \in SectorResults, suit \in SuitabilityResults}

\* the rules of generateRecommendations applied to analysisData
ApplyRules(analysisData) ==
  /\ Calculated("rules", analysisData, RuleOutputs(analysisData))

\* portfolios of total value 10000 whose loss under the seeded scenario
\* (TECHNOLOGY -40, FINANCIAL -60, other equity -45, bonds +5) is
\* +5, -20, -25, -30, -35, -40 and -45 percent
LossPortfolio(tech, fin, other, bond) ==
  [totalValue |-> 10000,
   holdings |-> <<Stock("AAPL", "TECHNOLOGY", tech \div 100, tech),
                  Stock("JPM", "FINANCIAL", fin \div 100, fin),
                  Stock("XOM", "ENERGY", other \div 100, other),
                  Bond("BND", bond \div 100, bond)>>]

LossPortfolios ==
  {LossPortfolio(0, 0, 0, 10000), LossPortfolio(3750, 1250, 0, 5000),
   LossPortfolio(4500, 1500, 0, 4000), LossPortfolio(2000, 4000, 0, 4000),
   LossPortfolio(6000, 2000, 0, 2000), LossPortfolio(10000, 0, 0, 0),
   LossPortfolio(0, 0, 10000, 0)}

\* portfolios of stocks in sectors the seeded scenario has no shock for; the
\* second keeps 2000 of its total value as cashPosition, outside the holdings
EquityPortfolios ==
  {[totalValue |-> 10000,
    holdings |-> <<Stock("XOM", "ENERGY", 60, 6000), Stock("JNJ", "HEALTHCARE", 40, 4000)>>],
   [totalValue |-> 10000,
    holdings |-> <<Stock("XOM", "ENERGY", 50, 5000), Stock("JNJ", "HEALTHCARE", 30, 3000)>>,
    cashPosition |-> 2000]}

\* runStressTest of a portfolio under the seeded scenario
StressPortfolio(portfolioData) ==
  /\ Calculated("stressPortfolio", portfolioData, runStressTest(1, 1, portfolioData))

StressHoldings ==
  {Stock("AAPL", "TECHNOLOGY", 10, 1000), Stock("XOM", "ENERGY", 10, 1000),
   Stock("DUK", "UTILITIES", 10, 1000), Bond("BND", 10, 1000),
   Merge(Bond("TBOND", 10, 1000), [sector |-> "TECHNOLOGY"]),
   Merge(Bond("UBOND", 10, 1000), [sector |-> "UTILITIES"])}

\* scenarios as POST /scenarios stores them: sectorShocks is optional and an
\* entry may be 0
StressScenarios ==
  {[shockParameters |-> [equityShock |-> -45, bondShock |-> 5],
    sectorShocks |-> [TECHNOLOGY |-> -40, UTILITIES |-> 0]],
   [shockParameters |-> [equityShock |-> -30, bondShock |-> 5],
    sectorShocks |-> [TECHNOLOGY |-> -10, UTILITIES |-> -5]],
   [shockParameters |-> [equityShock |-> -30, bondShock |-> -8],
    sectorShocks |-> [TECHNOLOGY |-> -10, UTILITIES |-> -5]],
   [shockParameters |-> [equityShock |-> -20, bondShock |-> 5]]}

StressHolding(holding, scenario) ==
  /\ Calculated("stressHolding", [holding |-> holding, scenario |-> scenario],
                StressedHolding(holding, scenario))

\* holdings with and without a beta and an annualized volatility of their
\* own, 0 included (beta in hundredths)
RiskHoldings ==
  {Stock("AAPL", "TECHNOLOGY", 50, 5000),
   Merge(Stock("NVDA", "TECHNOLOGY", 50, 5000), [annualizedVolatility |-> 40, beta |-> 150]),
   Merge(Stock("HEDGE", "UTILITIES", 50, 5000), [annualizedVolatility |-> 0, beta |-> 0]),
   Bond("BND", 50, 5000)}

RiskHoldingLists ==
  {<<>>} \cup {<<h>> : h \in RiskHoldings} \cup {<<g, h>> : g, h \in RiskHoldings}

VolatilityAndBeta(holdings) ==
  /\ Calculated("volatilityAndBeta", holdings,
                [portfolioVolatility |-> calculatePortfolioVolatility(holdings),
                 portfolioBeta |-> calculatePortfolioBeta(holdings)])

\* response lists scoreAssessment accepts: of any length, a question may be
\* answered more than once
ScoreLists ==
  {<<>>, AllOf(1), AllOf(3), AllOf(5),
   AllOf(5) \o <<[questionId |-> 1, selectedOption |-> 5]>>,
   AllOf(5) \o AllOf(5),
   <<[questionId |-> 1, selectedOption |-> 2], [questionId |-> 2, selectedOption |-> 4]>>}

\* scoreAssessment, then generateProfile from its result
Scored(responses, investor, rnd, scored) ==
  Calculated("score", [responses |-> responses, investorId |-> investor.investorId],
             [rawScore |-> scored.rawScore,
              percentileScore |-> scored.percentileScore,
              profile |-> generateProfile(investor,
                                          [assessmentId |-> 1, rawScore |-> scored.rawScore,
                                           percentileScore |-> scored.percentileScore],
                                          1, rnd, now)])

ScoreAndProfile(responses, investor, rnd) ==
  /\ scoreAssessment(responses).ok
  /\ Scored(responses, investor, rnd, scoreAssessment(responses))

\* lists of up to MaxWeights holdings with weights in [0,100]; the weights of
\* a list need not sum to 100
Weights == {0, 10, 30, 60, 100}

WeightLists == UNION {[1..n -> Weights] : n \in 0..MaxWeights}

HoldingsOfWeights(weights) ==
  [k \in 1..Len(weights) |-> Stock("AAPL", "TECHNOLOGY", weights[k], 100 * weights[k])]

Indexed(holdings, herfindahlIndex) ==
  Calculated("herfindahl", holdings,
             [herfindahlIndex |-> herfindahlIndex,
              effectivePositions |-> calculateEffectivePositions(herfindahlIndex)])

WeightedHoldingLists == {HoldingsOfWeights(weights) : weights \in WeightLists}

Herfindahl(holdings) ==
  /\ Indexed(holdings, calculateHerfindahlIndex(holdings))

Statuses == {"COMPLIANT", "BREACHED"}

\* Herfindahl indices on both sides of 0.05, 0.10 and 0.15
HerfindahlIndices == {400, 500, 501, 1000, 1001, 1500, 1501, 2500}

RiskInputs ==
  [singleStatus : Statuses, sectorStatus : Statuses, top5Status : Statuses,
   herfindahlIndex : HerfindahlIndices]

DetermineRisk(in) ==
  /\ Calculated("concentrationRisk", in,
                determineConcentrationRisk(in.singleStatus, in.sectorStatus, in.top5Status,
                                           in.herfindahlIndex))

\* GET /risk-categories: the published code and scoreRange of each category
riskCategories ==
  <<[code |-> 1, scoreRange |-> [min |-> 0, max |-> 30]],
    [code |-> 2, scoreRange |-> [min |-> 31, max |-> 45]],
    [code |-> 3, scoreRange |-> [min |-> 46, max |-> 55]],
    [code |-> 4, scoreRange |-> [min |-> 56, max |-> 65]],
    [code |-> 5, scoreRange |-> [min |-> 66, max |-> 100]]>>

\* the raw scores of accepted response lists: up to every question answered
\* twice with its highest option
MaxRawScore == 150

Categorize(score) ==
  /\ Calculated("riskCategory", score, calculateRiskCategory(score))

\* the holdings no check counts: ten positions of 5 percent or less
SmallHoldings(last) ==
  <<Stock("PG", "CONSUMER_STAPLES", 5, 500), Stock("DUK", "UTILITIES", 5, 500),
    Stock("AMT", "REAL_ESTATE", 5, 500), Stock("CAT", "INDUSTRIALS", 5, 500),
    Stock("LIN", "MATERIALS", 5, 500), Stock("VZ", "TELECOMMUNICATIONS", 5, 500),
    Stock("KO", "CONSUMER_STAPLES", 5, 500), Stock("SO", "UTILITIES", 5, 500),
    Bond("TIP", last, 100 * last)>>

\* largest position 10, largest sector 25, five largest 50: each at its default limit
HoldingsAtLimits ==
  <<Stock("AAPL", "TECHNOLOGY", 10, 1000), Stock("JPM", "FINANCIAL", 10, 1000),
    Stock("MSFT", "TECHNOLOGY", 10, 1000), Stock("XOM", "ENERGY", 10, 1000),
    Stock("NVDA", "TECHNOLOGY", 5, 500), Stock("JNJ", "HEALTHCARE", 10, 1000)>>
  \o SmallHoldings(5)

\* largest position 11, largest sector 26, five largest 51: each one above
HoldingsJustOver ==
  <<Stock("JPM", "FINANCIAL", 10, 1000), Stock("AAPL", "TECHNOLOGY", 11, 1100),
    Stock("MSFT", "TECHNOLOGY", 10, 1000), Stock("XOM", "ENERGY", 10, 1000),
    Stock("NVDA", "TECHNOLOGY", 5, 500), Stock("JNJ", "HEALTHCARE", 10, 1000)>>
  \o SmallHoldings(4)

\* largest position 25, largest sector 40, five largest 85
HoldingsConcentrated ==
  <<Stock("DUK", "UTILITIES", 5, 500), Stock("MSFT", "TECHNOLOGY", 15, 1500),
    Stock("JPM", "FINANCIAL", 20, 2000), Stock("AAPL", "TECHNOLOGY", 25, 2500),
    Stock("XOM", "ENERGY", 15, 1500), Stock("JNJ", "HEALTHCARE", 10, 1000),
    Bond("BND", 10, 1000)>>

ConcentrationHoldings ==
  {HoldingsAtLimits, HoldingsJustOver, HoldingsConcentrated, PBalanced.holdings,
   PTech.holdings}

ConcentrationThresholds ==
  {<<>>, [sectorLimit |-> 30],
   [singlePositionLimit |-> 25, sectorLimit |-> 40, top5Limit |-> 85],
   [singlePositionLimit |-> 24, sectorLimit |-> 39, top5Limit |-> 84]}

AnalyzeConcentration(holdings, thresholds) ==
  /\ Calculated("concentration", [holdings |-> holdings, thresholds |-> thresholds],
                analyzeConcentration(holdings, thresholds))

\* total values (thousands of dollars) and volatilities (percent) whose
\* product stays within MaxVaRProduct
VaRInputs ==
  {in \in [totalValue : 1..MaxVaRProduct, portfolioVolatility : 0..MaxVaRProduct] :
     in.totalValue * in.portfolioVolatility <= MaxVaRProduct}

ValueAtRisk(in) ==
  /\ Calculated("valueAtRisk", in, calculateVaR(in.totalValue, in.portfolioVolatility))

\* The arrays one analysis call works on, by name; "holdings" is the list of
\* the request.  [...a] and a.map(f) create a new array, a.sort(cmp) sorts
\* the array it is called on in place.
NewArray(heap, name, array) ==
  [n \in DOMAIN heap \cup {name} |-> IF n = name THEN array ELSE heap[n]]

SortInPlace(heap, name, field, descending) ==
  [heap EXCEPT ![name] = IF descending THEN SortDesc(@, field) ELSE SortAsc(@, field)]

\* holdings.map(h => ({symbol, riskContribution})).sort(...)
AfterRiskDecomposition(heap) ==
  SortInPlace(NewArray(heap, "contributors",
                       [k \in 1..Len(heap.holdings) |->
                          [symbol |-> heap.holdings[k].symbol,
                           riskContribution |->
                             heap.holdings[k].weight *
                               (IF Has(heap.holdings[k], "annualizedVolatility")
                                   /\ heap.holdings[k].annualizedVolatility # 0
                                THEN heap.holdings[k].annualizedVolatility ELSE 20)]]),
              "contributors", "riskContribution", TRUE)

\* a variant that sorts the list of the request itself: holdings.sort(...)
AfterSortedByWeightInPlace(heap) == SortInPlace(heap, "holdings", "weight", TRUE)

\* const sorted = [...holdings].sort((a, b) => b.weight - a.weight), in
\* analyzeSinglePosition and in analyzeTop5Concentration
AfterSortedByWeight(heap) ==
  SortInPlace(NewArray(heap, "sorted", heap.holdings), "sorted", "weight", TRUE)

\* holdingImpacts = holdings.map(...); sorted = [...holdingImpacts].sort(...)
AfterStressTest(heap, scenario) ==
  SortInPlace(NewArray(heap, "sortedImpacts",
                       [k \in 1..Len(heap.holdings) |->
                          applyStressToHolding(heap.holdings[k], scenario)]),
              "sortedImpacts", "lossPercent", FALSE)

\* the arrays after the calculations of a comprehensive analysis: portfolio
\* risk, concentration (single position, top 5), stress test
AfterAnalysis(holdings, scenario) ==
  AfterStressTest(AfterSortedByWeight(AfterSortedByWeight(
                    AfterRiskDecomposition([holdings |-> holdings]))), scenario)

Analyze(holdings) ==
  /\ Calculated("analyze", holdings, AfterAnalysis(holdings, scenarios[1]))

\* beta and volatility in hundredths: betas of 0.5 to 2, volatilities of 5% to 45%
DrawdownInputs ==
  [portfolioBeta : {50, 100, 120, 200}, portfolioVolatility : {500, 1500, 2000, 4500}]

MaxDrawdown(in) ==
  /\ Calculated("maxDrawdown", in,
                calculateMaxDrawdown(in.portfolioBeta, in.portfolioVolatility))

NextCalculators ==
  \/ \E in \in DrawdownInputs : MaxDrawdown(in)
  \/ \E holdings \in ConcentrationHoldings : Analyze(holdings)
  \/ \E in \in VaRInputs : ValueAtRisk(in)
  \/ \E holdings \in ConcentrationHoldings, thresholds \in ConcentrationThresholds :
        AnalyzeConcentration(holdings, thresholds)
  \/ \E score \in 0..MaxRawScore : Categorize(score)
  \/ \E in \in RiskInputs : DetermineRisk(in)
  \/ \E holdings \in WeightedHoldingLists : Herfindahl(holdings)
  \/ \E responses \in ScoreLists, i \in 1..NumSeedInvestors, rnd \in RandomDraws :
        ScoreAndProfile(responses, SeedInvestor(i), rnd)
  \/ \E holdings \in RiskHoldingLists : VolatilityAndBeta(holdings)
  \/ \E analysisData \in AnalysisDataSets : ApplyRules(analysisData)
  \/ \E portfolioData \in LossPortfolios \cup EquityPortfolios : StressPortfolio(portfolioData)
  \/ \E holding \in StressHoldings, scenario \in StressScenarios :
        StressHolding(holding, scenario)

SpecCalculators == Init /\ [][NextCalculators]_vars

----------------------------------------------------------------------------
(* mcp/mcpServer.js: the SSE transport.  sseSessions[k] is the k-th        *)
(* connection made by GET /mcp/sse (k stands for its uuid): stored tells   *)
(* whether the Map sseSessions has an entry under that id, res is the      *)
(* response stream of the connection, with the events written to it.       *)

MaxSessions == 2
MaxEvents == 2

createResult(id, result) == [jsonrpc |-> "2.0", id |-> id, result |-> result]

createError(id, code) == [jsonrpc |-> "2.0", id |-> id, error |-> [code |-> code]]

handleRequest(request) ==
  IF request.jsonrpc # "2.0" THEN createError(request.id, -32600)
  ELSE IF request.method = "ping" THEN createResult(request.id, "empty")
  ELSE IF request.method = "tools/list" THEN createResult(request.id, "tools")
  ELSE createError(request.id, -32601)

\* bodies posted to /mcp/sse/message
Requests ==
  {[jsonrpc |-> "2.0", id |-> 1, method |-> "ping"],
   [jsonrpc |-> "2.0", id |-> 2, method |-> "tools/list"],
   [jsonrpc |-> "2.0", id |-> 3, method |-> "resources/list"],
   [jsonrpc |-> "1.0", id |-> 4, method |-> "ping"]}

\* query strings of the posts: no sessionId, or the id of a connection that
\* was made, or an id that no connection was given
Queries == {None} \cup {[sessionId |-> k] : k \in 1..(MaxSessions + 1)}

Written(sessions) == SumSeq([k \in 1..Len(sessions) |-> Len(sessions[k].res.written)])

\* a close handler that leaves the Map as it is
sseSessionsKeep(sessions, sessionId) == sessions

\* sseSessions.delete(sessionId)
sseSessionsDelete(sessions, sessionId) ==
  [sessions EXCEPT ![sessionId].stored = FALSE]

\* sseSessions.get(sessionId): the index of the entry, Null when there is none
sseSessionsGet(sessions, sessionId) ==
  IF sessionId \in 1..Len(sessions) /\ sessions[sessionId].stored THEN sessionId ELSE Null

handleSseConnection ==
  /\ Len(sseSessions) < MaxSessions
  /\ sseSessions' = Append(sseSessions,
                           [stored |-> TRUE,
                            res |-> [closed |-> FALSE,
                                     written |-> <<[event |-> "endpoint",
                                                    data |-> Len(sseSessions) + 1]>>]])
  /\ response' = [op |-> "sseConnection", status |-> 200]
  /\ UNCHANGED <<investors, riskProfiles, riskAssessments, recommendations, scenarios,
                 counters, now, riskScores>>

\* the client goes away: the connection is closed and the 'close' (or
\* 'error') handler registered by handleSseConnection runs
ClientDisconnects(sessionId) ==
  /\ sessionId \in 1..Len(sseSessions)
  /\ ~sseSessions[sessionId].res.closed
  /\ sseSessions' = sseSessionsDelete([sseSessions EXCEPT ![sessionId].res.closed = TRUE],
                                      sessionId)
  /\ response' = [op |-> "sseClose", status |-> 200, sessionId |-> sessionId]
  /\ UNCHANGED <<investors, riskProfiles, riskAssessments, recommendations, scenarios,
                 counters, now, riskScores>>

handleSseMessage(query, request) ==
  /\ IF ~Has(query, "sessionId")
     THEN /\ response' = [op |-> "sseMessage", query |-> query, request |-> request,
                          status |-> 400, processed |-> FALSE]
          /\ UNCHANGED sseSessions
     ELSE IF sseSessionsGet(sseSessions, query.sessionId) = Null
     THEN /\ response' = [op |-> "sseMessage", query |-> query, request |-> request,
                          status |-> 404, processed |-> FALSE]
          /\ UNCHANGED sseSessions
     ELSE /\ Written(sseSessions) < MaxEvents + Len(sseSessions)
          /\ sseSessions' =
               [sseSessions EXCEPT ![query.sessionId].res.written =
                  IF sseSessions[query.sessionId].res.closed THEN @
                  ELSE Append(@, [event |-> "message", data |-> handleRequest(request)])]
          /\ response' = [op |-> "sseMessage", query |-> query, request |-> request,
                          status |-> 202, processed |-> TRUE]
  /\ UNCHANGED <<investors, riskProfiles, riskAssessments, recommendations, scenarios,
                 counters, now, riskScores>>

NextMcp ==
  \/ handleSseConnection
  \/ \E sessionId \in 1..MaxSessions : ClientDisconnects(sessionId)
  \/ \E query \in Queries, request \in Requests : handleSseMessage(query, request)

SpecMcp == Init /\ [][NextMcp]_vars

----------------------------------------------------------------------------
(* routes/investors.js: POST /investors, DELETE /investors/:investorId;    *)
(* routes/scores.js: POST /scores                                          *)

MaxInvestors == 3
MaxScores == 2
MaxStored == 8

\* request bodies of the documented schemas
InvestorBodies ==
  {[liquidNetWorth |-> 100, annualIncome |-> 60, investmentHorizon |-> "LONG_TERM"]}

ScoreBodies == {[investorId |-> 1, compositeScore |-> 55]}

CreateInvestor(body) ==
  /\ Len(investors) < MaxInvestors
  /\ counters.investor <= MaxInvestors
  /\ investors' = Append(investors, Merge([investorId |-> counters.investor], body))
  /\ counters' = [counters EXCEPT !.investor = @ + 1]
  /\ response' = [op |-> "createInvestor", status |-> 201,
                  data |-> [investorId |-> counters.investor]]
  /\ UNCHANGED <<riskProfiles, riskAssessments, recommendations, scenarios, now,
                 riskScores, sseSessions>>

\* datastore.remove: splices the first record with the id out of the collection
remove(collection, idField, id) ==
  LET index == FirstIndex(collection, idField, id)
  IN [k \in 1..(Len(collection) - 1) |->
        IF k < index THEN collection[k] ELSE collection[k + 1]]

DeleteInvestor(investorId) ==
  /\ IF ~Exists(investors, "investorId", investorId)
     THEN /\ response' = [op |-> "deleteInvestor", status |-> 404]
          /\ UNCHANGED <<investors, riskProfiles, riskAssessments, recommendations, scenarios,
                         counters, now, riskScores, sseSessions>>
     ELSE /\ investors' = remove(investors, "investorId", investorId)
          /\ response' = [op |-> "deleteInvestor", status |-> 200,
                          data |-> [investorId |-> investorId]]
          /\ UNCHANGED <<riskProfiles, riskAssessments, recommendations, scenarios,
                         counters, now, riskScores, sseSessions>>

CreateScore(body) ==
  /\ Len(riskScores) < MaxScores
  /\ riskScores' = Append(riskScores,
                          Merge([scoreId |-> counters.score, scoreDate |-> now], body))
  /\ counters' = [counters EXCEPT !.score = @ + 1]
  /\ response' = [op |-> "createScore", status |-> 201,
                  data |-> [scoreId |-> counters.score]]
  /\ UNCHANGED <<investors, riskProfiles, riskAssessments, recommendations, scenarios,
                 now, sseSessions>>

RecordDraws == {[tolerance |-> 5, required |-> 10, volTolerance |-> 10]}

\* comprehensive analyses, which generate and store a recommendation record
RecommendationRequests ==
  {[investorId |-> 1, portfolioData |-> PBalanced, includeStressTests |-> TRUE,
    scenarioIds |-> <<>>]}

\* the number of records in the collections that the operations add to
Stored ==
  Len(investors) + Len(scenarios) + Len(riskProfiles) + Len(riskScores) + Len(recommendations)

\* the operations that add records to the collections, or remove them
NextRecords ==
  \/ /\ Stored < MaxStored
     /\ \E body \in InvestorBodies : CreateInvestor(body)
  \/ \E investorId \in 1..MaxInvestors : DeleteInvestor(investorId)
  \/ /\ Stored < MaxStored
     /\ \E body \in ScenarioBodies : CreateScenario(body)
  \/ /\ Stored < MaxStored
     /\ \E body \in ProfileBodies : CreateProfile(body)
  \/ /\ Stored < MaxStored
     /\ \E body \in ScoreBodies : CreateScore(body)
  \/ /\ Stored < MaxStored
     /\ \E i \in InvestorIds, r \in ValidResponses, rnd \in RecordDraws :
           SubmitAssessment(i, r, rnd)
  \/ /\ Stored < MaxStored
     /\ \E req \in RecommendationRequests : Comprehensive(req)

SpecRecords == Init /\ [][NextRecords]_vars

Next ==
  \/ \E i \in InvestorIds, r \in ValidResponses \cup InvalidResponses, rnd \in RandomDraws :
        SubmitAssessment(i, r, rnd)
  \/ \E body \in ProfileBodies : CreateProfile(body)
  \/ \E id \in 1..(MaxProfiles + 1), u \in ProfileUpdates : UpdateProfile(id, u)

Spec == Init /\ [][Next]_vars

----------------------------------------------------------------------------
(* Properties *)

ProfilesOf(profiles, investorId) ==
  {k \in 1..Len(profiles) : profiles[k].investorId = investorId}

ActiveProfilesOf(profiles, investorId) ==
  {k \in ProfilesOf(profiles, investorId) : Truthy(profiles[k], "isActive")}

\* C1: every investor who has at least one risk profile has exactly one
\* profile with isActive = true.
C1_ExactlyOneActiveProfile ==
  \A i \in InvestorIds :
    ProfilesOf(riskProfiles, i) # {} => Cardinality(ActiveProfilesOf(riskProfiles, i)) = 1

\* C2: when an assessment submission completes, the profile it generated is
\* the investor's only active profile, every earlier profile of that
\* investor is inactive with a non-null validTo, and the profiles of every
\* other investor are as they were; this holds for each of two successive
\* submissions, in whatever order the two requests are handled.
C2_SubmissionSupersedes ==
  [][(response'.op = "assessment" /\ response'.status = 201) =>
       LET n == Len(riskProfiles')
           new == riskProfiles'[n]
       IN /\ n = Len(riskProfiles) + 1
          /\ new.profileId = response'.data.profileId
          /\ ActiveProfilesOf(riskProfiles', new.investorId) = {n}
          /\ \A k \in 1..Len(riskProfiles) :
               IF riskProfiles[k].investorId = new.investorId
               THEN /\ ~Truthy(riskProfiles'[k], "isActive")
                    /\ Has(riskProfiles'[k], "validTo")
                    /\ riskProfiles'[k].validTo # Null
               ELSE riskProfiles'[k] = riskProfiles[k]]_vars

AssessedProfilesOf(investorId) ==
  {k \in ProfilesOf(riskProfiles, investorId) :
     Has(riskProfiles[k], "assessmentId") /\ riskProfiles[k].validFrom > 0}

\* two submissions for the same investor have completed
C2_Witness ==
  /\ response.op = "assessment" /\ response.status = 201
  /\ \E i \in InvestorIds : Cardinality(AssessedProfilesOf(i)) >= 2

\* C3: a submission whose responses contain an unknown question id or an
\* unknown option id, at any position, fails and leaves the collections and
\* the id counters as they were.
C3_InvalidSubmissionChangesNothing ==
  [][\A i \in InvestorIds, r \in InvalidResponses, rnd \in RandomDraws :
       SubmitAssessment(i, r, rnd) =>
         /\ response'.status # 201
         /\ UNCHANGED <<investors, riskProfiles, riskAssessments, recommendations,
                        scenarios, counters>>]_vars

C3_Witness ==
  /\ response.op = "assessment" /\ response.status = 500
  /\ Len(riskAssessments) = NumSeedInvestors

CalculatorOps == {"portfolioRisk", "concentration", "suitability", "stressTest",
                  "stressTests", "comprehensive"}

\* what the handler of resp.op answers to resp.req in the current state
AnswerAgain(resp) ==
  CASE resp.op = "portfolioRisk" -> PortfolioRiskAnswer(resp.req)
    [] resp.op = "concentration" -> ConcentrationAnswer(resp.req)
    [] resp.op = "suitability" -> SuitabilityAnswer(resp.req)
    [] resp.op = "stressTest" -> StressTestAnswer(resp.req)
    [] resp.op = "stressTests" -> StressTestsAnswer(resp.req)
    [] resp.op = "comprehensive" -> ComprehensiveAnswer(resp.req)

\* C4: a calculator invoked a second time with the same input, right after
\* the first call, returns the same output: the state a call leaves behind
\* gives the same request the answer that was just given.
C4_SecondCallSameOutput ==
  response.op \in CalculatorOps => AnswerAgain(response) = response

\* C5: a call of generateRecommendations (made by every comprehensive
\* analysis that succeeds) leaves every datastore collection unchanged.
C5_GenerateLeavesDatastore ==
  [][(response'.op = "comprehensive" /\ response'.status = 200) =>
       UNCHANGED <<investors, riskProfiles, riskAssessments, recommendations, scenarios>>]_vars

\* C6: a comprehensive analysis that fails at any step returns no partial
\* result, stores no recommendation record and advances no id counter.
C6_FailedComprehensiveChangesNothing ==
  [][(response'.op = "comprehensive" /\ response'.status # 200) =>
       /\ ~Has(response', "data")
       /\ UNCHANGED <<investors, riskProfiles, riskAssessments, recommendations,
                      scenarios, counters>>]_vars

C6_Witness ==
  /\ response.op = "comprehensive" /\ response.status = 500
  /\ response.error = "Scenario not found"
  /\ recommendations = <<>>

KnownScenario(id) == Exists(scenarios, "scenarioId", id)

\* C7: runMultipleStressTests fails with the scenario-not-found error and
\* without any result when the list contains an unknown id; given only known
\* ids it returns one result per id, in input order, each the result of
\* runStressTest for that id alone.
C7_StressTestsAllOrNothing ==
  response.op = "stressTests" =>
    LET ids == response.req.scenarioIds
    IN IF \E k \in 1..Len(ids) : ~KnownScenario(ids[k])
       THEN /\ response.status = 500
            /\ response.error = "Scenario not found"
            /\ ~Has(response, "data")
       ELSE /\ response.status = 200
            /\ Len(response.data) = Len(ids)
            /\ \A k \in 1..Len(ids) :
                 response.data[k] = runStressTest(response.req.investorId, ids[k],
                                                  response.req.portfolioData)

\* C8: a concentration, suitability or stress-test request that passes the
\* up-front checks and whose investor, active profile and scenarios exist
\* completes with a result.
C8_NoErrorInMidCalculation ==
  /\ response.op = "concentration" => response.status = 200
  /\ (response.op = "suitability"
        /\ Exists(investors, "investorId", response.req.investorId)
        /\ ActiveProfileIndex(riskProfiles, response.req.investorId) # 0)
       => response.status = 200
  /\ (response.op = "stressTest" /\ KnownScenario(response.req.scenarioId))
       => response.status = 200
  /\ (response.op = "stressTests"
        /\ \A k \in 1..Len(response.req.scenarioIds) : KnownScenario(response.req.scenarioIds[k]))
       => response.status = 200

ScoreSum(dimensions) ==
  dimensions.riskAlignment.score + dimensions.allocationAlignment.score
    + dimensions.concentrationCompliance.score + dimensions.timeHorizonFit.score

\* C9 as stated: overallScore is exactly the unweighted mean of the four
\* dimension scores.
C9_ExactMean ==
  response.op = "overallSuitability" => 4 * response.data.overallScore = ScoreSum(response.req)

\* C9 as amended: overallScore is the unweighted mean of the four dimension
\* scores rounded to the nearest integer, a half rounding upwards.
C9_RoundedMean ==
  response.op = "overallSuitability" =>
    /\ 4 * response.data.overallScore - 2 <= ScoreSum(response.req)
    /\ ScoreSum(response.req) < 4 * response.data.overallScore + 2

\* the mean 355 / 4 = 88.75 of the scores 85, 90, 95, 85 is reported as 89
C9_Witness ==
  /\ response.op = "overallSuitability"
  /\ ScoreSum(response.req) = 355
  /\ response.data.overallScore = 89

LowDimensions(dimensions) == {d \in DOMAIN dimensions : dimensions[d].score < 70}

ActionOf(d) ==
  CASE d = "concentrationCompliance" -> "Address concentration risk"
    [] d = "riskAlignment" -> "Reduce portfolio volatility to match risk tolerance"
    [] d = "allocationAlignment" -> "Rebalance to recommended asset allocation"
    [] OTHER -> "Review the investment time horizon"

\* C10: requiredActions holds exactly one action for each of the four
\* dimensions scoring below 70 and none for the others, and actionRequired
\* is true exactly when that list is non-empty.
C10_OneActionPerLowDimension ==
  (response.op = "suitability" /\ response.status = 200) =>
    LET low == LowDimensions(response.data.suitabilityAssessment.dimensions)
        actions == response.data.requiredActions
    IN /\ Len(actions) = Cardinality(low)
       /\ \A d \in {"concentrationCompliance", "riskAlignment", "allocationAlignment"} :
            (d \in low) <=> (\E k \in 1..Len(actions) : actions[k] = ActionOf(d))
       /\ response.data.actionRequired <=> (Len(actions) > 0)

RuleItems(outputs) == SelectSeq(outputs, LAMBDA r : r.suffix # "E")

RuleRank(suffix) ==
  CASE suffix = "A" -> 1 [] suffix = "B" -> 2 [] suffix = "C" -> 3 [] suffix = "D" -> 4 [] OTHER -> 5

InRuleOrder(items) ==
  \A j, k \in 1..Len(items) : j < k => RuleRank(items[j].suffix) < RuleRank(items[k].suffix)

\* C11 as stated: whenever rules 1-4 produce fewer than 3 recommendations,
\* exactly one INCOME recommendation is appended as the last item; when they
\* produce 3 or 4 none is appended; the rule items appear in rule order.
C11_IncomeWheneverFewerThanThree ==
  response.op = "rules" =>
    LET items == RuleItems(response.data)
    IN /\ InRuleOrder(items)
       /\ IF Len(items) < 3
          THEN /\ Len(response.data) = Len(items) + 1
               /\ response.data = Append(items, response.data[Len(response.data)])
               /\ response.data[Len(response.data)].category = "INCOME"
          ELSE response.data = items

\* C11 as amended: the INCOME recommendation is appended, as the last item,
\* exactly when a suitability assessment was supplied and rules 1-4 produced
\* fewer than 3 recommendations; the rule items appear in rule order.
C11_IncomeNeedsSuitability ==
  response.op = "rules" =>
    LET items == RuleItems(response.data)
    IN /\ InRuleOrder(items)
       /\ IF response.req.suitabilityAssessment # None /\ Len(items) < 3
          THEN /\ Len(response.data) = Len(items) + 1
               /\ response.data = Append(items, response.data[Len(response.data)])
               /\ response.data[Len(response.data)].category = "INCOME"
          ELSE response.data = items

\* two rules fired and the INCOME item follows them
C11_Witness ==
  /\ response.op = "rules"
  /\ response.req.suitabilityAssessment # None
  /\ Len(response.data) = 3
  /\ response.data[3].category = "INCOME"

RecoveryBand(absLoss100) ==
  IF absLoss100 <= 2000 THEN "6-12 months (estimated)"
  ELSE IF absLoss100 <= 3000 THEN "12-24 months (estimated)"
  ELSE IF absLoss100 <= 4000 THEN "24-36 months (estimated)"
  ELSE "36+ months (estimated)"

\* C12: the recovery estimate is the band of |percentageLoss| with the edges
\* 20, 30 and 40 belonging to the lower band.
C12_RecoveryBands ==
  (response.op = "stressPortfolio" /\ response.data.ok) =>
    LET impact == response.data.scenarioResults.portfolioImpact
    IN impact.recoveryTime = RecoveryBand(Abs(impact.percentageLoss))

\* C13: for a holding that is not a bond the shock applied is the scenario's
\* entry for the holding's sector whenever sectorShocks has one (0 included)
\* and the equityShock only when it has none.
C13_SectorShockWhenDefined ==
  (response.op = "stressHolding"
     /\ response.req.holding.securityType # "BOND"
     /\ Has(response.req.scenario, "sectorShocks")) =>
    /\ response.data.ok
    /\ response.data.impact.lossPercent =
         100 * (IF SectorOf(response.req.holding) \in DOMAIN response.req.scenario.sectorShocks
                THEN response.req.scenario.sectorShocks[SectorOf(response.req.holding)]
                ELSE response.req.scenario.shockParameters.equityShock)

\* C14: for a bond, any scenario with the same bondShock gives the same
\* stressedValue and lossPercent, whatever its sectorShocks and equityShock
\* and whatever the sector of the holding.
C14_BondDependsOnBondShockOnly ==
  (response.op = "stressHolding" /\ response.req.holding.securityType = "BOND") =>
    \A scenario \in StressScenarios, holding \in StressHoldings :
      (/\ holding.securityType = "BOND"
       /\ holding.marketValue = response.req.holding.marketValue
       /\ scenario.shockParameters.bondShock = response.req.scenario.shockParameters.bondShock)
      => LET other == StressedHolding(holding, scenario)
         IN /\ other.ok = response.data.ok
            /\ other.ok => /\ other.impact.stressedValue = response.data.impact.stressedValue
                           /\ other.impact.lossPercent = response.data.impact.lossPercent

OwnOrDefault(h, field, default) == IF Has(h, field) THEN h[field] ELSE default

\* C15: the portfolio volatility and beta use a holding's own annualized
\* volatility and beta whenever the holding supplies them (0 included) and
\* the sector x kind default only for a holding that supplies none.
C15_OwnValuesUsedWhenSupplied ==
  (response.op = "volatilityAndBeta" /\ Len(response.req) > 0) =>
    /\ response.data.portfolioVolatility =
         SumSeq([k \in 1..Len(response.req) |->
                   response.req[k].weight *
                     OwnOrDefault(response.req[k], "annualizedVolatility",
                                  getDefaultVolatility(SectorOf(response.req[k]),
                                                       response.req[k].securityType))])
    /\ response.data.portfolioBeta =
         ToFixed(SumSeq([k \in 1..Len(response.req) |->
                           response.req[k].weight *
                             OwnOrDefault(response.req[k], "beta",
                                          getDefaultBeta(SectorOf(response.req[k]),
                                                         response.req[k].securityType))]), 100)

\* C16: for every accepted response list (any length, repeated question ids
\* included) and every investor, the percentile score and the composite,
\* tolerance and capacity scores of the generated profile lie in 0..100.
C16_ScoresWithinRange ==
  response.op = "score" =>
    /\ response.data.percentileScore \in 0..100
    /\ response.data.profile.compositeRiskScore \in 0..100
    /\ response.data.profile.riskToleranceScore \in 0..100
    /\ response.data.profile.riskCapacityScore \in 0..100

\* effectivePositions (tenths) is 1/HHI (HHI in 1/10000) to one decimal, 0 for HHI = 0
IsInverse(effectivePositions, herfindahlIndex) ==
  IF herfindahlIndex = 0 THEN effectivePositions = 0
  ELSE 2 * Abs(effectivePositions * herfindahlIndex - 100000) <= herfindahlIndex

TotalWeight(holdings) == SumSeq([k \in 1..Len(holdings) |-> holdings[k].weight])

TierRank(tier) ==
  CASE tier = "LOW" -> 1 [] tier = "MODERATE" -> 2 [] tier = "ELEVATED" -> 3 [] tier = "HIGH" -> 4

\* COMPLIANT statuses may have turned BREACHED, never the reverse
NoFewerBreaches(from, to) ==
  \A f \in {"singleStatus", "sectorStatus", "top5Status"} :
    from[f] = "BREACHED" => to[f] = "BREACHED"

\* C18: for a fixed Herfindahl index, turning COMPLIANT statuses into BREACHED
\* never lowers the overall concentration risk in LOW < MODERATE < ELEVATED <
\* HIGH, and for fixed statuses a larger Herfindahl index never lowers it.
C18_RiskMonotonic ==
  response.op = "concentrationRisk" =>
    \A in \in RiskInputs :
      (\/ /\ in.herfindahlIndex = response.req.herfindahlIndex
          /\ NoFewerBreaches(response.req, in)
       \/ /\ in.herfindahlIndex >= response.req.herfindahlIndex
          /\ in.singleStatus = response.req.singleStatus
          /\ in.sectorStatus = response.req.sectorStatus
          /\ in.top5Status = response.req.top5Status)
      => TierRank(determineConcentrationRisk(in.singleStatus, in.sectorStatus, in.top5Status,
                                             in.herfindahlIndex))
           >= TierRank(response.data)

C18_Witness ==
  /\ response.op = "concentrationRisk"
  /\ response.req = [singleStatus |-> "BREACHED", sectorStatus |-> "BREACHED",
                     top5Status |-> "COMPLIANT", herfindahlIndex |-> 400]
  /\ response.data = "HIGH"

Band(score) ==
  IF score <= 30 THEN 1 ELSE IF score <= 45 THEN 2 ELSE IF score <= 55 THEN 3
  ELSE IF score <= 65 THEN 4 ELSE 5

\* the codes of the published categories whose scoreRange contains the score
PublishedCodes(score) ==
  {riskCategories[k].code : k \in {j \in 1..Len(riskCategories) :
      /\ riskCategories[j].scoreRange.min <= score
      /\ score <= riskCategories[j].scoreRange.max}}

\* C19: calculateRiskCategory maps every raw score to the category of its
\* band (<=30, 31-45, 46-55, 56-65, >65), the code never decreases as the
\* score grows, and the category is the one whose published scoreRange
\* contains the score.
C19_CategoryMatchesPublishedRange ==
  /\ response.op = "riskCategory" =>
       /\ response.data = Band(response.req)
       /\ \A score \in 0..response.req : calculateRiskCategory(score) <= response.data
       /\ PublishedCodes(response.req) = {response.data}
  /\ response.op = "score" =>
       PublishedCodes(response.data.rawScore) = {response.data.profile.riskCategoryCode}

LimitOr(thresholds, field, default) == IF Has(thresholds, field) THEN thresholds[field] ELSE default

LargestPosition(holdings) ==
  CHOOSE w \in {holdings[k].weight : k \in 1..Len(holdings)} :
    \A k \in 1..Len(holdings) : holdings[k].weight <= w

SectorWeight(holdings, sector) ==
  SumSeq([k \in 1..Len(holdings) |->
            IF SectorOf(holdings[k]) = sector THEN holdings[k].weight ELSE 0])

LargestSector(holdings) ==
  CHOOSE w \in {SectorWeight(holdings, SectorOf(holdings[k])) : k \in 1..Len(holdings)} :
    \A k \in 1..Len(holdings) : SectorWeight(holdings, SectorOf(holdings[k])) <= w

\* the largest total weight of at most five holdings
FiveLargest(holdings) ==
  CHOOSE w \in 0..TotalWeight(holdings) :
    /\ \E five \in SUBSET (1..Len(holdings)) :
         /\ Cardinality(five) <= 5
         /\ w = SumSeq([k \in 1..Len(holdings) |-> IF k \in five THEN holdings[k].weight ELSE 0])
    /\ \A five \in SUBSET (1..Len(holdings)) :
         Cardinality(five) <= 5 =>
           w >= SumSeq([k \in 1..Len(holdings) |-> IF k \in five THEN holdings[k].weight ELSE 0])

Checked(result, measured, limit) ==
  /\ result.limit = limit
  /\ IF measured > limit
     THEN result.status = "BREACHED" /\ result.breach = measured - limit
     ELSE result.status = "COMPLIANT" /\ result.breach = 0

C22_VaROrdered ==
  response.op = "valueAtRisk" =>
    /\ response.data.var99_percent <= response.data.var95_percent
    /\ response.data.var95_percent <= 0
    /\ response.data.var99_dollar <= response.data.var95_dollar
    /\ response.data.var95_dollar <= 0

\* 2000 dollars at 6 percent: 2.85 and 4.03 percent, 56.98 and 80.58 dollars
C22_Witness ==
  /\ response.op = "valueAtRisk"
  /\ response.req = [totalValue |-> 2, portfolioVolatility |-> 6]
  /\ response.data = [var95_percent |-> -285, var95_dollar |-> -5698,
                      var99_percent |-> -403, var99_dollar |-> -8058]

\* C23: no analysis entry point modifies the portfolio snapshot it is given:
\* after the call the holdings list has the same order and the same field
\* values as before, although the calculations sort holdings internally.
C23_SnapshotUnchanged ==
  response.op = "analyze" => response.data.holdings = response.req

C23_Witness ==
  /\ response.op = "analyze"
  /\ response.req = HoldingsConcentrated
  /\ response.data.sorted # response.req
  /\ response.data.sorted[1].symbol = "AAPL"
  /\ response.data.sortedImpacts[1].symbol = "JPM"
  /\ response.data.holdings[1].symbol = "DUK"

\* C24: a message posted to /mcp/sse/message is answered 202, and its
\* response is the last event on the stream of its session, exactly when its
\* sessionId names a connection that was made and is not closed; a closed
\* connection has no entry in the session map, a message for it (or for an
\* id no connection has) is answered 404, a message without sessionId is
\* answered 400, and neither of these is processed or writes to any stream.
SessionOpen(query) ==
  /\ Has(query, "sessionId")
  /\ query.sessionId \in 1..Len(sseSessions)
  /\ ~sseSessions[query.sessionId].res.closed

C24_AcceptedExactlyForOpenSession ==
  /\ [](\A k \in 1..Len(sseSessions) : sseSessions[k].res.closed => ~sseSessions[k].stored)
  /\ [](response.op = "sseMessage" =>
          /\ response.status = 202 <=> SessionOpen(response.query)
          /\ response.status = 400 <=> ~Has(response.query, "sessionId")
          /\ response.status = 404 <=>
               Has(response.query, "sessionId") /\ ~SessionOpen(response.query)
          /\ response.status = 202 =>
               /\ response.processed
               /\ LET written == sseSessions[response.query.sessionId].res.written
                  IN written[Len(written)] =
                       [event |-> "message", data |-> handleRequest(response.request)]
          /\ response.status # 202 => ~response.processed)
  /\ [][/\ (response'.op = "sseMessage" /\ response'.status # 202) =>
             sseSessions' = sseSessions
        /\ (response'.op = "sseMessage" /\ response'.status = 202) =>
             Written(sseSessions') = Written(sseSessions) + 1]_vars

\* a message is delivered on a session, the client disconnects, and a later
\* message for the same session is answered 404
C24_Witness ==
  /\ response.op = "sseMessage"
  /\ response.status = 404
  /\ response.query = [sessionId |-> 1]
  /\ Len(sseSessions) >= 1
  /\ sseSessions[1].res.closed
  /\ Len(sseSessions[1].res.written) = 2

\* C25: an assessment submission leaves the validTo of every profile that
\* was superseded before it (isActive false, validTo set) as it was.
Superseded(profile) ==
  /\ ~Truthy(profile, "isActive")
  /\ Has(profile, "validTo")
  /\ profile.validTo # Null

C25_SupersededValidToKept ==
  [][response'.op = "assessment" =>
       \A k \in 1..Len(riskProfiles) :
          Superseded(riskProfiles[k]) => riskProfiles'[k].validTo = riskProfiles[k].validTo]_vars

\* C26: in every collection, no two records carry the same identifier.
UniqueIds(collection, idField) ==
  \A j, k \in 1..Len(collection) : collection[j][idField] = collection[k][idField] => j = k

C26_IdentifiersUnique ==
  /\ UniqueIds(investors, "investorId")
  /\ UniqueIds(scenarios, "scenarioId")
  /\ UniqueIds(riskProfiles, "profileId")
  /\ UniqueIds(riskScores, "scoreId")
  /\ UniqueIds(riskAssessments, "assessmentId")
  /\ UniqueIds(recommendations, "recommendationId")

\* C27: every stored risk profile and every stored assessment refers to an
\* investor that is stored.
C27_ProfilesReferToStoredInvestors ==
  /\ \A k \in 1..Len(riskProfiles) :
        Exists(investors, "investorId", riskProfiles[k].investorId)
  /\ \A k \in 1..Len(riskAssessments) :
        Exists(investors, "investorId", riskAssessments[k].investorId)

\* C28: the estimated maximum drawdown is never positive, and its magnitude
\* is at least that of the drawdown for any beta and volatility that are
\* both no higher.
C28_DrawdownGrowsWithRisk ==
  response.op = "maxDrawdown" =>
    /\ response.data <= 0
    /\ \A lower \in DrawdownInputs :
          (/\ lower.portfolioBeta <= response.req.portfolioBeta
           /\ lower.portfolioVolatility <= response.req.portfolioVolatility)
          => Abs(response.data) >=
               Abs(calculateMaxDrawdown(lower.portfolioBeta, lower.portfolioVolatility))

\* C29: in a comprehensive analysis for an investor with an active profile,
\* a breached single-position limit in the concentration analysis comes with
\* a concentrationCompliance dimension that is not COMPLIANT.
C29_BreachNotCompliant ==
  (/\ response.op = "comprehensive"
   /\ response.status = 200
   /\ response.data.suitabilityAssessment # None
   /\ response.data.concentrationAnalysis.concentrationAnalysis.singlePosition.status
        = "BREACHED")
  => response.data.suitabilityAssessment[1].suitabilityAssessment.dimensions
       .concentrationCompliance.status # "COMPLIANT"

\* C30: the overallRating of every suitability result is the band of the
\* rounded overallScore reported with it: 80 and above HIGHLY_SUITABLE,
\* 70-79 SUITABLE, 60-69 SUITABLE_WITH_CAVEATS, 50-59 REVIEW_REQUIRED, below
\* 50 NOT_SUITABLE.
RatingBand(score) ==
  IF score >= 80 THEN "HIGHLY_SUITABLE"
  ELSE IF score >= 70 THEN "SUITABLE"
  ELSE IF score >= 60 THEN "SUITABLE_WITH_CAVEATS"
  ELSE IF score >= 50 THEN "REVIEW_REQUIRED"
  ELSE "NOT_SUITABLE"

C30_RatingMatchesRoundedScore ==
  response.op = "overallSuitability" =>
    response.data.overallRating = RatingBand(response.data.overallScore)

\* scores 85, 72, 95 and 65: the mean 79.25 is reported as 79, SUITABLE
C30_Witness ==
  /\ response.op = "overallSuitability"
  /\ response.req.riskAlignment.score = 85
  /\ response.req.allocationAlignment.score = 72
  /\ response.req.concentrationCompliance.score = 95
  /\ response.req.timeHorizonFit.score = 65
  /\ response.data.overallScore = 79
  /\ response.data.overallRating = "SUITABLE"

====
